---- MODULE Spec2Model ----
(***************************************************************************)
(* A model of simple-http-loadbalancer: the smooth weighted round-robin    *)
(* selector (internal/balancer/algorithm), the circuit breaker, the token  *)
(* bucket, and the load balancer's request pipeline and rolling            *)
(* reconfiguration (internal/balancer).                                    *)
(*                                                                         *)
(* The module holds several specifications over one set of variables:      *)
(*   SpecWRR  a selector on its own, driven through its public methods     *)
(*   SpecCB   a circuit breaker on its own, Execute called by one caller   *)
(*   SpecTB   a token bucket on its own                                    *)
(*   Spec     the load balancer: request handlers running ServeHTTP while  *)
(*            one caller at a time runs Rollout or Rollback                *)
(*   SpecPair    the load balancer with two callers of Rollout / Rollback  *)
(*   SpecGates   the load balancer with requests only, nobody changing    *)
(*               the backends                                              *)
(*   SpecCBPair  a circuit breaker with two callers of Execute             *)
(*   SpecCBHeal  the same, the operation succeeding from some moment on,   *)
(*               with time advancing and calls arriving for ever           *)
(*   SpecWin     a sliding-window rate limiter and its cleanup goroutine   *)
(*   SpecStart   LoadBalancer.Start: the frontend servers and shutdown     *)
(*   SpecStartFair  the same, every goroutine scheduled again and again    *)
(*   SpecSsl     an ssl.Manager and two callers of its methods             *)
(*   SpecReset   Reset of a selector and of a breaker, from the states     *)
(*               that Add, AdjustWeight, Next and RecordResult lead to     *)
(* Each specification leaves the variables of the other components alone.  *)
(***************************************************************************)
EXTENDS Integers, Sequences, FiniteSets, TLC

VARIABLES
    wrr,        \* WeightedRoundRobin.backends: a sequence of WeightedBackend
    wlog,       \* history: entries (positions) picked by Next since the last change
    wclean,     \* history: every CurrentWeight was 0 right after the last change
    wops,       \* history: number of mutating selector calls so far
    now,        \* the clock (time.Now), in ticks
    cb,         \* the CircuitBreaker under test
    cbPc,       \* per caller of Execute: "idle", "upgrade" (inside AllowRequest,
                \* between RUnlock and Lock) or "running" (the operation is running)
    cbHist,     \* history: what the last breaker event was and what it started from
    tb,         \* the TokenBucket under test
    tbLog,      \* history: the Allow calls so far, each with its time and outcome
    recs,       \* the Backend values in use, by address
    lbBackends, \* LoadBalancer.backends: a sequence of addresses
    lbMu,       \* LoadBalancer.mu: whether write-locked, and who holds a read lock
    hs,         \* per request handler: where it is in ServeHTTP and what it has done
    ro,         \* the caller of Rollout / Rollback: where it is, and its locals
    gens,       \* history: the number of updateBackends calls, and which one
                \* built the live set
    wrrGen,     \* history: for each selector entry, the updateBackends call that added it
    served,     \* history: the number of requests taken up so far
    recent,     \* history: the backends picked since the live set was installed
    win,        \* the WindowRateLimiter under test, and its cleanup ticker
    winLog,     \* history: what the limiter admitted, and its latest events
    srv,        \* LoadBalancer.Start: its goroutines, the frontend servers and
                \* the requests in flight
    ssl         \* the ssl.Manager under test and the callers of its methods

wrrVars == <<wrr, wlog, wclean, wops>>
cbVars == <<cb, cbPc, cbHist>>
tbVars == <<tb, tbLog>>
winVars == <<win, winLog>>
selVars == <<wlog, wclean, wops>>
lbVars == <<recs, lbBackends, lbMu, hs, ro, gens, wrrGen, served, recent>>
vars == <<wrr, wlog, wclean, wops, now, cb, cbPc, cbHist, tb, tbLog,
          recs, lbBackends, lbMu, hs, ro, gens, wrrGen, served, recent,
          win, winLog, srv, ssl>>

----------------------------------------------------------------------------
(* Bounds of the selector specification *)

MaxBackends == 3
MaxWeight == 3
MaxWrrOps == 4
MaxWrrLog == 9

Ids == {"a", "b"}

----------------------------------------------------------------------------
(* internal/balancer/algorithm: WeightedRoundRobin *)

NewWeightedRoundRobin == << >>

\* Add: a weight <= 0 is coerced to 1; the entry is appended.
WrrAdd(bs, id, weight) ==
    LET w == IF weight <= 0 THEN 1 ELSE weight
    IN  Append(bs, [ID |-> id, Weight |-> w, CurrentWeight |-> 0,
                    EffectiveWeight |-> w])

\* The position of the first entry with this ID, 0 when there is none.
RECURSIVE FirstWithID(_, _, _)
FirstWithID(bs, id, i) ==
    IF i > Len(bs) THEN 0
    ELSE IF bs[i].ID = id THEN i
    ELSE FirstWithID(bs, id, i + 1)

\* Remove: drops the first entry with this ID.
WrrRemove(bs, id) ==
    LET i == FirstWithID(bs, id, 1)
    IN  IF i = 0 THEN bs
        ELSE SubSeq(bs, 1, i - 1) \o SubSeq(bs, i + 1, Len(bs))

\* A loop that would let a later entry replace the maximum on a tie.
RECURSIVE NextLoopLast(_, _, _, _)
NextLoopLast(bs, i, totalWeight, max) ==
    IF i > Len(bs) THEN [backends |-> bs, totalWeight |-> totalWeight, max |-> max]
    ELSE LET b   == [bs[i] EXCEPT !.CurrentWeight = @ + bs[i].EffectiveWeight]
             bs2 == [bs EXCEPT ![i] = b]
             m2  == IF max = 0 \/ b.CurrentWeight >= bs2[max].CurrentWeight
                    THEN i ELSE max
         IN  NextLoopLast(bs2, i + 1, totalWeight + b.EffectiveWeight, m2)

\* The loop of Next: every entry gains its effective weight; the running
\* maximum is replaced only by a strictly larger current weight.
RECURSIVE NextLoop(_, _, _, _)
NextLoop(bs, i, totalWeight, max) ==
    IF i > Len(bs) THEN [backends |-> bs, totalWeight |-> totalWeight, max |-> max]
    ELSE LET b   == [bs[i] EXCEPT !.CurrentWeight = @ + bs[i].EffectiveWeight]
             bs2 == [bs EXCEPT ![i] = b]
             m2  == IF max = 0 \/ b.CurrentWeight > bs2[max].CurrentWeight
                    THEN i ELSE max
         IN  NextLoop(bs2, i + 1, totalWeight + b.EffectiveWeight, m2)

\* Next with the winner lowered by its own effective weight instead of the total.
WrrNextSubOwn(bs) ==
    IF Len(bs) = 0 THEN [backends |-> bs, selected |-> 0]
    ELSE LET r == NextLoop(bs, 1, 0, 0)
         IN  [backends |-> [r.backends EXCEPT ![r.max].CurrentWeight =
                                @ - r.backends[r.max].EffectiveWeight],
              selected |-> r.max]

\* Next with the winner's current weight left as the loop made it.
WrrNextNoLower(bs) ==
    IF Len(bs) = 0 THEN [backends |-> bs, selected |-> 0]
    ELSE LET r == NextLoop(bs, 1, 0, 0)
         IN  [backends |-> r.backends, selected |-> r.max]

\* Next: selected = 0 stands for nil, otherwise the position of the winner.
WrrNext(bs) ==
    IF Len(bs) = 0 THEN [backends |-> bs, selected |-> 0]
    ELSE LET r == NextLoop(bs, 1, 0, 0)
         IN  IF r.max = 0 THEN [backends |-> r.backends, selected |-> 0]
             ELSE [backends |-> [r.backends EXCEPT
                                    ![r.max].CurrentWeight = @ - r.totalWeight],
                   selected |-> r.max]

\* UpdateWeight: sets nominal and effective weight of the first entry with this ID.
WrrUpdateWeight(bs, id, weight) ==
    LET i == FirstWithID(bs, id, 1)
        w == IF weight <= 0 THEN 1 ELSE weight
    IN  IF i = 0 THEN bs
        ELSE [bs EXCEPT ![i].Weight = w, ![i].EffectiveWeight = w]

\* An AdjustWeight without the cap.
WrrAdjustWeightNoCap(bs, id, delta) ==
    LET i  == FirstWithID(bs, id, 1)
        n0 == bs[i].EffectiveWeight + delta
        n1 == IF n0 <= 0 THEN 1 ELSE n0
    IN  IF i = 0 THEN bs ELSE [bs EXCEPT ![i].EffectiveWeight = n1]

\* AdjustWeight: effective weight plus delta, raised to 1, capped at 2*Weight.
WrrAdjustWeight(bs, id, delta) ==
    LET i  == FirstWithID(bs, id, 1)
        n0 == bs[i].EffectiveWeight + delta
        n1 == IF n0 <= 0 THEN 1 ELSE n0
        n2 == IF n1 > bs[i].Weight * 2 THEN bs[i].Weight * 2 ELSE n1
    IN  IF i = 0 THEN bs ELSE [bs EXCEPT ![i].EffectiveWeight = n2]

\* A Reset that would start every current weight at the old effective weight.
WrrResetSeeded(bs) ==
    [i \in 1..Len(bs) |->
        [bs[i] EXCEPT !.CurrentWeight = bs[i].EffectiveWeight,
                      !.EffectiveWeight = bs[i].Weight]]

\* Reset: current weights to 0, effective weights back to nominal.
WrrReset(bs) ==
    [i \in 1..Len(bs) |->
        [bs[i] EXCEPT !.CurrentWeight = 0, !.EffectiveWeight = bs[i].Weight]]

AllCurrentZero(bs) == \A i \in 1..Len(bs) : bs[i].CurrentWeight = 0

----------------------------------------------------------------------------
(* The selector on its own *)

\* A step of the selector leaves the other components alone.
OnlyWRR == UNCHANGED <<now, cbVars, tbVars, lbVars, winVars, srv, ssl>>

\* What every mutating call does to the history variables.
WChanged(bs2) ==
    /\ OnlyWRR
    /\ wrr' = bs2
    /\ wops' = wops + 1
    /\ IF bs2 = wrr
       THEN UNCHANGED <<wlog, wclean>>
       ELSE wlog' = << >> /\ wclean' = AllCurrentZero(bs2)

WAdd ==
    /\ wops < MaxWrrOps
    /\ Len(wrr) < MaxBackends
    /\ \E id \in Ids, w \in 0..MaxWeight : WChanged(WrrAdd(wrr, id, w))

WRemove ==
    /\ wops < MaxWrrOps
    /\ \E id \in Ids : WChanged(WrrRemove(wrr, id))

WUpdateWeight ==
    /\ wops < MaxWrrOps
    /\ \E id \in Ids, w \in 0..MaxWeight : WChanged(WrrUpdateWeight(wrr, id, w))

WAdjustWeight ==
    /\ wops < MaxWrrOps
    /\ \E id \in Ids, d \in {-1, 1, 2 * MaxWeight} :
          WChanged(WrrAdjustWeight(wrr, id, d))

WReset ==
    /\ wops < MaxWrrOps
    /\ WChanged(WrrReset(wrr))

WNext ==
    /\ Len(wlog) < MaxWrrLog
    /\ LET r == WrrNext(wrr)
       IN  /\ wrr' = r.backends
           /\ wlog' = Append(wlog, r.selected)
    /\ UNCHANGED <<wclean, wops>>
    /\ OnlyWRR

\* The variables of the components a specification does not use.
IdleCB ==
    /\ cb = [state |-> "Closed"]
    /\ cbPc = << >>
    /\ cbHist = [last |-> "none"]

IdleTB ==
    /\ tb = [tokens |-> 0]
    /\ tbLog = << >>

IdleWin ==
    /\ win = [limit |-> 0]
    /\ winLog = << >>

IdleStart == srv = [pc |-> "none"]

IdleSsl == ssl = [mu |-> 0]

IdleLB ==
    /\ recs = << >>
    /\ lbBackends = << >>
    /\ lbMu = [writer |-> FALSE, readers |-> {}]
    /\ hs = << >>
    /\ ro = << >>
    /\ gens = [calls |-> 0, live |-> 0]
    /\ wrrGen = << >>
    /\ served = 0
    /\ recent = << >>

InitWRR ==
    /\ wrr = NewWeightedRoundRobin
    /\ wlog = << >>
    /\ wclean = TRUE
    /\ wops = 0
    /\ now = 0
    /\ IdleCB
    /\ IdleTB
    /\ IdleWin
    /\ IdleStart
    /\ IdleSsl
    /\ IdleLB

NextWRR == WAdd \/ WRemove \/ WUpdateWeight \/ WAdjustWeight \/ WReset \/ WNext

SpecWRR == InitWRR /\ [][NextWRR]_vars

----------------------------------------------------------------------------
(* Bounds of the breaker specification *)

MaxThreshold == 2
MaxOpenTimeout == 2
MaxHalfOpen == 2
MaxTime == 4

----------------------------------------------------------------------------
(* internal/circuitbreaker: CircuitBreaker *)

\* The defaults New puts in place of a non-positive setting; one tick of the
\* clock is taken to be a second where a default is used.
DefaultThreshold == 5
DefaultTimeout == 10
DefaultHalfOpenMax == 3

\* The zero time.Time of a fresh breaker's lastFailure: long before any clock value.
ZeroTime == 0 - (MaxTime + DefaultTimeout + 1)

CbNew(threshold, timeout, halfOpenMax) ==
    [ threshold    |-> IF threshold <= 0 THEN DefaultThreshold ELSE threshold,
      timeout      |-> IF timeout <= 0 THEN DefaultTimeout ELSE timeout,
      halfOpenMax  |-> IF halfOpenMax <= 0 THEN DefaultHalfOpenMax ELSE halfOpenMax,
      state        |-> "Closed",
      failures     |-> 0,
      lastFailure  |-> ZeroTime,
      successCount |-> 0 ]

\* An AllowRequest that would never let a call through while Open.
CbAllowReadNoProbe(b, t) ==
    CASE b.state = "Closed"   -> "admit"
      [] b.state = "Open"     -> "reject"
      [] b.state = "HalfOpen" -> "admit"
      [] OTHER                -> "reject"

\* AllowRequest, the part under the read lock: "admit", "reject", or "upgrade"
\* when the caller goes on to take the write lock.
CbAllowRead(b, t) ==
    CASE b.state = "Closed"   -> "admit"
      [] b.state = "Open"     -> IF t - b.lastFailure > b.timeout THEN "upgrade" ELSE "reject"
      [] b.state = "HalfOpen" -> "admit"
      [] OTHER                -> "reject"

\* AllowRequest, the part under the write lock.
CbUpgrade(b) == [b EXCEPT !.state = "HalfOpen", !.successCount = 0]

\* RecordResult tripping only above the threshold.
CbRecordResultLate(b, failed, t) ==
    IF failed
    THEN LET f == b.failures + 1
         IN  [b EXCEPT !.failures = f,
                       !.lastFailure = t,
                       !.state = IF b.state = "Closed" /\ f > b.threshold THEN "Open"
                                 ELSE IF b.state = "HalfOpen" THEN "Open"
                                 ELSE b.state]
    ELSE CASE b.state = "HalfOpen" ->
                 LET n == b.successCount + 1
                 IN  IF n >= b.halfOpenMax
                     THEN [b EXCEPT !.successCount = n, !.state = "Closed", !.failures = 0]
                     ELSE [b EXCEPT !.successCount = n]
           [] b.state = "Closed" -> [b EXCEPT !.failures = 0]
           [] OTHER -> b

\* RecordResult.
CbRecordResult(b, failed, t) ==
    IF failed
    THEN LET f == b.failures + 1
         IN  [b EXCEPT !.failures = f,
                       !.lastFailure = t,
                       !.state = IF b.state = "Closed" /\ f >= b.threshold THEN "Open"
                                 ELSE IF b.state = "HalfOpen" THEN "Open"
                                 ELSE b.state]
    ELSE CASE b.state = "HalfOpen" ->
                 LET n == b.successCount + 1
                 IN  IF n >= b.halfOpenMax
                     THEN [b EXCEPT !.successCount = n, !.state = "Closed", !.failures = 0]
                     ELSE [b EXCEPT !.successCount = n]
           [] b.state = "Closed" -> [b EXCEPT !.failures = 0]
           [] OTHER -> b

\* Reset.
CbReset(b) == [b EXCEPT !.failures = 0, !.state = "Closed", !.successCount = 0]

----------------------------------------------------------------------------
(* The breaker on its own: Execute is AllowRequest, the operation, RecordResult *)

OnlyCB == UNCHANGED <<wrrVars, tbVars, lbVars, winVars, srv, ssl>>

\* History: "from" is the state the event started from, "late" whether more than
\* the open timeout had passed since the last failure when the call was made,
\* failRun the failed operations in a row recorded since the breaker was last
\* Closed with none, okRun the successes in a row recorded since it last became
\* HalfOpen; "due" whether at least the open timeout had passed when the call
\* was made; upFrom, upDue and upLost what the latest switch to HalfOpen found:
\* the state, whether at least the open timeout had passed since the last
\* failure, and whether a half-open success had been counted; probes the calls
\* admitted since the breaker became HalfOpen; reset whether Reset was ever
\* called; healed whether the operations have stopped failing.
NoHist ==
    [ last |-> "none", from |-> "Closed", late |-> FALSE, failRun |-> 0, okRun |-> 0,
      due |-> FALSE, upFrom |-> "none", upDue |-> FALSE, upLost |-> FALSE, probes |-> 0,
      reset |-> FALSE, healed |-> FALSE ]

\* Execute, entry: AllowRequest under the read lock. A rejected call returns
\* CircuitOpen at once and the operation is not called.
CBAllowRequest(c) ==
    /\ cbPc[c] = "idle"
    /\ LET v == CbAllowRead(cb, now)
           h == [cbHist EXCEPT !.from = cb.state,
                               !.late = now - cb.lastFailure > cb.timeout,
                               !.due = now - cb.lastFailure >= cb.timeout]
       IN  CASE v = "admit"   -> /\ cbPc' = [cbPc EXCEPT ![c] = "running"]
                                 /\ cbHist' = [h EXCEPT !.last = "admit",
                                                        !.probes = IF cb.state = "HalfOpen"
                                                                   THEN @ + 1 ELSE @]
             [] v = "upgrade" -> /\ cbPc' = [cbPc EXCEPT ![c] = "upgrade"]
                                 /\ cbHist' = [h EXCEPT !.last = "upgrade"]
             [] v = "reject"  -> /\ cbPc' = cbPc
                                 /\ cbHist' = [h EXCEPT !.last = "reject"]
    /\ UNCHANGED <<cb, now>>
    /\ OnlyCB

\* AllowRequest, after the read lock was given up: the switch to HalfOpen.
CBUpgrade(c) ==
    /\ cbPc[c] = "upgrade"
    /\ cb' = CbUpgrade(cb)
    /\ cbPc' = [cbPc EXCEPT ![c] = "running"]
    /\ cbHist' = [cbHist EXCEPT !.last = "admit", !.okRun = 0,
                                !.upFrom = cb.state,
                                !.upDue = now - cb.lastFailure >= cb.timeout,
                                !.upLost = cb.state = "HalfOpen" /\ cb.successCount > 0,
                                !.probes = IF cb.state = "HalfOpen" THEN @ + 1 ELSE 1]
    /\ UNCHANGED now
    /\ OnlyCB

\* The operation returns (nil or an error) and RecordResult is called.
CBRecord(c) ==
    /\ cbPc[c] = "running"
    /\ \E failed \in BOOLEAN :
          /\ cbHist.healed => ~failed
          /\ cb' = CbRecordResult(cb, failed, now)
          /\ cbHist' = [cbHist EXCEPT
                 !.last = IF failed THEN "fail" ELSE "ok",
                 !.from = cb.state,
                 !.failRun = IF failed /\ cb.state = "Closed" THEN @ + 1 ELSE 0,
                 !.okRun = IF ~failed /\ cb.state = "HalfOpen" THEN @ + 1 ELSE 0,
                 !.probes = IF cb'.state = cb.state THEN @ ELSE 0]
    /\ cbPc' = [cbPc EXCEPT ![c] = "idle"]
    /\ UNCHANGED now
    /\ OnlyCB

CBReset ==
    /\ cb' = CbReset(cb)
    /\ cbHist' = [cbHist EXCEPT !.last = "reset", !.from = cb.state,
                                !.failRun = 0, !.okRun = 0, !.probes = 0,
                                !.reset = TRUE]
    /\ UNCHANGED <<cbPc, now>>
    /\ OnlyCB

\* Time passes.
Tick ==
    /\ now < MaxTime
    /\ now' = now + 1
    /\ UNCHANGED <<wrrVars, cbVars, tbVars, lbVars, winVars, srv, ssl>>

IdleWRR ==
    /\ wrr = NewWeightedRoundRobin
    /\ wlog = << >>
    /\ wclean = TRUE
    /\ wops = 0

InitCB ==
    /\ IdleWRR
    /\ now = 0
    /\ \E th \in 0..MaxThreshold, to \in 1..MaxOpenTimeout, ho \in 0..MaxHalfOpen :
          cb = CbNew(th, to, ho)
    /\ cbPc = [c \in {1} |-> "idle"]
    /\ cbHist = NoHist
    /\ IdleTB
    /\ IdleWin
    /\ IdleStart
    /\ IdleSsl
    /\ IdleLB

NextCB ==
    \/ \E c \in DOMAIN cbPc : CBAllowRequest(c)
    \/ \E c \in DOMAIN cbPc : CBUpgrade(c)
    \/ \E c \in DOMAIN cbPc : CBRecord(c)
    \/ CBReset
    \/ Tick

SpecCB == InitCB /\ [][NextCB]_vars

\* Two goroutines calling Execute on one breaker.
InitCBPair ==
    /\ IdleWRR
    /\ now = 0
    /\ \E th \in 0..MaxThreshold, to \in 1..MaxOpenTimeout, ho \in 0..MaxHalfOpen :
          cb = CbNew(th, to, ho)
    /\ cbPc = [c \in {1, 2} |-> "idle"]
    /\ cbHist = NoHist
    /\ IdleTB
    /\ IdleWin
    /\ IdleStart
    /\ IdleSsl
    /\ IdleLB

SpecCBPair == InitCBPair /\ [][NextCB]_vars

\* From some moment on the protected operation succeeds whenever it is run.
CBHeal ==
    /\ ~cbHist.healed
    /\ cbHist' = [cbHist EXCEPT !.healed = TRUE]
    /\ UNCHANGED <<cb, cbPc, now>>
    /\ OnlyCB

NextCBHeal == NextCB \/ CBHeal

\* Time keeps advancing, both callers keep calling Execute, and a call that has
\* begun goes on to its end.
FairCB ==
    /\ WF_vars(Tick)
    /\ \A c \in {1, 2} :
          /\ WF_vars(CBAllowRequest(c))
          /\ WF_vars(CBUpgrade(c))
          /\ WF_vars(CBRecord(c))

SpecCBHeal == InitCBPair /\ [][NextCBHeal]_vars /\ FairCB

----------------------------------------------------------------------------
(* Bounds of the token bucket specification *)

\* Token amounts are kept exactly, as multiples of 1/TokenScale of a token.
TokenScale == 2
MaxRate == 3
MaxCapacity == 2
MaxTbLog == 5

----------------------------------------------------------------------------
(* internal/ratelimit: TokenBucket. One tick of the clock is a second; rate,  *)
(* capacity and tokens are the source's float64 values times TokenScale.      *)

DefaultRate == 100

\* New: a non-positive rate becomes 100 per second, a non-positive capacity
\* the rate; the bucket starts full.
TbNew(rate, capacity, t) ==
    LET r == IF rate <= 0 THEN DefaultRate * TokenScale ELSE rate
        c == IF capacity <= 0 THEN r ELSE capacity
    IN  [rate |-> r, capacity |-> c, tokens |-> c, lastRefill |-> t]

\* refill that keeps whole tokens only.
TbRefillWhole(b, t) ==
    LET grown == b.tokens + (t - b.lastRefill) * b.rate
        whole == (grown \div TokenScale) * TokenScale
    IN  [b EXCEPT !.tokens = IF whole > b.capacity THEN b.capacity ELSE whole,
                  !.lastRefill = t]

\* refill that gives nothing for the time waited by a call that finds less than
\* one token.
TbRefillDrop(b, t) ==
    LET grown == b.tokens + (t - b.lastRefill) * b.rate
    IN  [b EXCEPT !.tokens = IF grown > b.capacity THEN b.capacity
                             ELSE IF grown < TokenScale THEN b.tokens ELSE grown,
                  !.lastRefill = t]

\* refill without the cap.
TbRefillNoCap(b, t) ==
    [b EXCEPT !.tokens = b.tokens + (t - b.lastRefill) * b.rate, !.lastRefill = t]

\* refill: elapsed seconds times rate are added, capped at the capacity.
TbRefill(b, t) ==
    LET grown == b.tokens + (t - b.lastRefill) * b.rate
    IN  [b EXCEPT !.tokens = IF grown > b.capacity THEN b.capacity ELSE grown,
                  !.lastRefill = t]

\* Allow that takes a token whenever the bucket is not empty.
TbAllowAny(b, t) ==
    LET r == TbRefill(b, t)
    IN  IF r.tokens > 0
        THEN [bucket |-> [r EXCEPT !.tokens = @ - TokenScale], err |-> "nil"]
        ELSE [bucket |-> r, err |-> "RateLimitExceeded"]

\* Allow: refill, then take one token if there is one.
TbAllow(b, t) ==
    LET r == TbRefill(b, t)
    IN  IF r.tokens >= TokenScale
        THEN [bucket |-> [r EXCEPT !.tokens = @ - TokenScale], err |-> "nil"]
        ELSE [bucket |-> r, err |-> "RateLimitExceeded"]

----------------------------------------------------------------------------
(* The token bucket on its own *)

OnlyTB == UNCHANGED <<wrrVars, cbVars, lbVars, winVars, srv, ssl>>

TBAllow ==
    /\ Len(tbLog) < MaxTbLog
    /\ LET r == TbAllow(tb, now)
       IN  /\ tb' = r.bucket
           /\ tbLog' = Append(tbLog, [t |-> now, err |-> r.err])
    /\ UNCHANGED now
    /\ OnlyTB

InitTB ==
    /\ IdleWRR
    /\ IdleCB
    /\ now = 0
    /\ \E r \in 1..MaxRate, c \in 0..MaxCapacity : tb = TbNew(r, c * TokenScale, now)
    /\ tbLog = << >>
    /\ IdleLB
    /\ IdleWin
    /\ IdleStart
    /\ IdleSsl

NextTB == TBAllow \/ Tick

SpecTB == InitTB /\ [][NextTB]_vars

----------------------------------------------------------------------------
(* Bounds of the sliding-window limiter specification *)

MaxWindow == 2        \* the longest window, in ticks
MaxLimit == 2         \* the largest limit
MaxCleanupTime == 2   \* the longest cleanup period, in ticks
MaxWinCalls == 4      \* how many times Allow is called

----------------------------------------------------------------------------
(* internal/ratelimit: WindowRateLimiter *)

\* A tick of the clock is a second: time.Second, time.Minute.
DefaultWindow == 1
DefaultLimit == 100
DefaultCleanupTime == 60

\* The limiter NewWindow returns at time t. requests maps a timestamp to a count;
\* isNil says that the map is nil. tick is the time of the next tick of the
\* ticker the cleanup goroutine creates.
NewWindow(w, l, c, t) ==
    LET ct == IF c <= 0 THEN DefaultCleanupTime ELSE c
    IN  [ window |-> IF w <= 0 THEN DefaultWindow ELSE w,
          limit |-> IF l <= 0 THEN DefaultLimit ELSE l,
          cleanupTime |-> ct,
          requests |-> << >>,
          isNil |-> FALSE,
          tick |-> t + ct ]

RECURSIVE SumOver(_, _)
SumOver(f, S) ==
    IF S = {} THEN 0
    ELSE LET x == CHOOSE y \in S : TRUE
         IN  f[x] + SumOver(f, S \ {x})

\* m[k]++ on a map.
Bump(m, k) ==
    [x \in DOMAIN m \cup {k} |->
        IF x = k THEN (IF k \in DOMAIN m THEN m[k] + 1 ELSE 1) ELSE m[x]]

\* A count that leaves out the requests made exactly one window ago.
WinCountStrict(l, t) ==
    SumOver(l.requests, {ts \in DOMAIN l.requests : ts > t - l.window})

\* The requests Allow counts at time t: ranging over a nil map finds none.
WinCount(l, t) ==
    SumOver(l.requests, {ts \in DOMAIN l.requests : ts >= t - l.window})

\* Allow at time t. Writing to a nil map panics.
WinAllow(l, t) ==
    IF WinCount(l, t) >= l.limit THEN [lim |-> l, err |-> "limited"]
    ELSE IF l.isNil THEN [lim |-> l, err |-> "panic"]
    ELSE [lim |-> [l EXCEPT !.requests = Bump(@, t)], err |-> "nil"]

\* One pass of the cleanup loop at time t; deleting from a nil map does nothing.
WinCleanup(l, t) ==
    [l EXCEPT !.requests = [ts \in {x \in DOMAIN @ : x >= t - l.window} |-> @[ts]]]

WinStop(l) == [l EXCEPT !.requests = << >>, !.isNil = TRUE]

----------------------------------------------------------------------------
(* The sliding-window limiter specification *)

OnlyWin == UNCHANGED <<wrrVars, cbVars, tbVars, lbVars, srv, ssl>>

\* History: admitted keeps every admitted request by timestamp, whatever cleanup
\* and Stop do to the map; last is the outcome of the latest Allow, inWin the
\* admitted requests that were inside its window, wrote whether it changed the
\* map; passes counts the cleanup passes; stopped says that Stop was called and
\* passAfterStop that a cleanup pass ran after it.
NoWinLog ==
    [ admitted |-> << >>, calls |-> 0, last |-> "none", inWin |-> 0, wrote |-> FALSE,
      passes |-> 0, stopped |-> FALSE, passAfterStop |-> FALSE ]

\* Allow holds wrl.mu from its first to its last statement and reads the clock
\* inside, so the calls of concurrent callers take effect one at a time.
WAllow ==
    /\ winLog.calls < MaxWinCalls
    /\ LET r == WinAllow(win, now)
       IN  /\ win' = r.lim
           /\ winLog' = [winLog EXCEPT
                 !.calls = @ + 1,
                 !.last = r.err,
                 !.inWin = SumOver(winLog.admitted,
                                   {ts \in DOMAIN winLog.admitted : ts >= now - win.window}),
                 !.wrote = r.lim.requests # win.requests,
                 !.admitted = IF r.err = "nil" THEN Bump(@, now) ELSE @]
    /\ UNCHANGED now
    /\ OnlyWin

\* The cleanup goroutine receives a tick and runs a pass. The ticker ticks every
\* cleanupTime and drops the ticks nobody is waiting for. The loop has no other
\* way out: nothing stops the ticker or closes its channel.
WCleanupPass ==
    /\ now >= win.tick
    /\ win' = [WinCleanup(win, now) EXCEPT
                 !.tick = @ + win.cleanupTime * (((now - @) \div win.cleanupTime) + 1)]
    /\ winLog' = [winLog EXCEPT !.passes = @ + 1,
                                !.passAfterStop = @ \/ winLog.stopped]
    /\ UNCHANGED now
    /\ OnlyWin

WStop ==
    /\ win' = WinStop(win)
    /\ winLog' = [winLog EXCEPT !.stopped = TRUE]
    /\ UNCHANGED now
    /\ OnlyWin

InitWin ==
    /\ IdleWRR
    /\ IdleCB
    /\ IdleTB
    /\ IdleLB
    /\ IdleStart
    /\ IdleSsl
    /\ now = 0
    /\ \E w \in 0..MaxWindow, l \in 0..MaxLimit, c \in 0..MaxCleanupTime :
          win = NewWindow(w, l, c, now)
    /\ winLog = NoWinLog

NextWin == WAllow \/ WCleanupPass \/ WStop \/ Tick

SpecWin == InitWin /\ [][NextWin]_vars

----------------------------------------------------------------------------
(* Bounds of the load balancer specification *)

MaxList == 2        \* the longest list of backend URLs
MaxBatch == 2       \* the largest BatchSize
MaxRollouts == 1    \* how many times Rollout or Rollback is called
MaxRequests == 2    \* how many requests arrive
MaxLbTime == 2      \* how far the clock runs
Handlers == {1}     \* the requests being served at once
Callers == {1, 2}   \* those who may call Rollout or Rollback

\* The settings updateBackends gives every breaker and bucket it builds, and the
\* request timeout of ServeHTTP. The source has a threshold of 5 failures, an
\* open timeout of 10 s, 100 tokens per second, 100 tokens of capacity and a
\* timeout of 30 s; the model keeps their roles and their order (the request
\* timeout is longer than the open timeout) at a smaller scale.
MaxGateRequests == 4  \* the requests made where there is no Rollout or Rollback

LbThreshold == 1
LbOpenTimeout == 1
LbHalfOpenMax == 2
LbRate == 1
LbCapacity == 1
RequestTimeout == 2

----------------------------------------------------------------------------
(* net/url as the balancer uses it *)

Urls == {"http://a", "HTTP://b", "%zz"}

\* url.Parse: the scheme is lowered; a bad percent escape is an error.
UrlParse(s) ==
    CASE s = "http://a" -> [ok |-> TRUE, url |-> [Scheme |-> "http", Host |-> "a"]]
      [] s = "http://b" -> [ok |-> TRUE, url |-> [Scheme |-> "http", Host |-> "b"]]
      [] s = "HTTP://b" -> [ok |-> TRUE, url |-> [Scheme |-> "http", Host |-> "b"]]
      [] OTHER          -> [ok |-> FALSE, url |-> [Scheme |-> "", Host |-> ""]]

\* URL.String leaving out the scheme.
UrlStringHost(u) == u.Host

\* URL.String.
UrlString(u) == u.Scheme \o "://" \o u.Host

GoodUrls == {s \in Urls : UrlParse(s).ok}

ListsOf(S) == UNION {[1..n -> S] : n \in 0..MaxList}

----------------------------------------------------------------------------
(* internal/balancer: LoadBalancer *)

\* fmt.Sprintf("backend-%d", i) and fmt.Sscanf(id, "backend-%d", &index); an ID
\* of another shape leaves index at 0.
BackendId(i) == <<"backend-", i>>
ParseIndex(id) == IF Len(id) = 2 /\ id[1] = "backend-" THEN id[2] ELSE 0

\* An address not in use.
FreshAddr(rs) == CHOOSE a \in 1..(Cardinality(DOMAIN rs) + 1) : a \notin DOMAIN rs

\* The Backend value updateBackends builds for a parsed URL.
NewBackend(u, t) ==
    [ URL |-> u,
      CircuitBreaker |-> CbNew(LbThreshold, LbOpenTimeout, LbHalfOpenMax),
      RateLimiter |-> TbNew(LbRate * TokenScale, LbCapacity * TokenScale, t) ]

\* An updateBackends that keeps the Backend it already has for a URL.
UbStepKeep(st, u, i, gen, t) ==
    LET same == {a \in DOMAIN st.recs : st.recs[a].URL = u}
        a    == IF same = {} THEN FreshAddr(st.recs) ELSE CHOOSE x \in same : TRUE
    IN  [ recs   |-> IF same = {} THEN (a :> NewBackend(u, t)) @@ st.recs ELSE st.recs,
          wrr    |-> WrrAdd(st.wrr, BackendId(i), 1),
          wrrGen |-> Append(st.wrrGen, gen),
          new    |-> Append(st.new, a) ]

\* One round of the loop of updateBackends for a URL that parses: the new
\* Backend is appended to newBackends and an entry of weight 1 is added to the
\* selector.
UbStep(st, u, i, gen, t) ==
    LET a == FreshAddr(st.recs)
    IN  [ recs   |-> (a :> NewBackend(u, t)) @@ st.recs,
          wrr    |-> WrrAdd(st.wrr, BackendId(i), 1),
          wrrGen |-> Append(st.wrrGen, gen),
          new    |-> Append(st.new, a) ]

RECURSIVE UbRun(_, _, _, _, _)
UbRun(st, list, i, gen, t) ==
    IF i >= Len(list) THEN st
    ELSE UbRun(UbStep(st, UrlParse(list[i + 1]).url, i, gen, t), list, i + 1, gen, t)

\* The Backend values something still points to.
Keep(rs, addrs) == [a \in (DOMAIN rs) \cap addrs |-> rs[a]]
Range(f) == {f[x] : x \in DOMAIN f}
Held(h) == {h[x].b : x \in DOMAIN h} \ {0}
Building == UNION {Range(ro[c].new) : c \in DOMAIN ro}

\* A batch size taken as it is given.
RolloutBatchSizeAsGiven(size) == size

\* Rollout and Rollback: a batch size of 0 or less becomes 1.
RolloutBatchSize(size) == IF size <= 0 THEN 1 ELSE size

\* Rollout and Rollback: the batch installed in the round that starts at i.
RolloutBatchFrom(list, i, size) ==
    LET end == IF i + size > Len(list) THEN Len(list) ELSE i + size
    IN  SubSeq(list, i + 1, end)

\* The entries before the round's first, without those of the round itself.
RolloutBatchBefore(list, i, size) == SubSeq(list, 1, i)

RolloutBatch(list, i, size) ==
    LET end == IF i + size > Len(list) THEN Len(list) ELSE i + size
    IN  SubSeq(list, 1, end)

\* The status switch of ServeHTTP.
StatusFor(err) ==
    CASE err = "CircuitOpen"       -> 503
      [] err = "RateLimitExceeded" -> 429
      [] OTHER                     -> 502

----------------------------------------------------------------------------
(* The load balancer: ServeHTTP in each handler, Rollout / Rollback in each caller *)

OnlyLB == UNCHANGED <<selVars, cbVars, tbVars, winVars, srv, ssl>>

\* No request was rate limited.
NoneLimited == [b |-> 0, t |-> 0, n |-> 0]

\* A handler before its first request. History: limited is the run of requests
\* of this handler that the limiter rejected one after the other with no
\* request admitted by the limiter in between: the backend of the latest, when
\* its rejection was recorded, and how many in a row were for that backend.
NoRequest ==
    [ pc |-> "idle", b |-> 0, live |-> 0, mixed |-> FALSE, err |-> "nil",
      written |-> << >>, start |-> 0, reqs |-> 0, errs |-> 0,
      limited |-> NoneLimited ]

\* A caller of Rollout / Rollback before its first call.
NoRollout ==
    [ pc |-> "idle", list |-> << >>, batch |-> 0, i |-> 0,
      old |-> << >>, ulist |-> << >>, k |-> 0, new |-> << >>, restore |-> FALSE,
      ctxDone |-> FALSE, result |-> "none", calls |-> 0,
      before |-> [urls |-> << >>, calls |-> 0], lastInst |-> 0, afterBatch |-> FALSE ]

\* How many requests are made: more where no Rollout or Rollback runs beside them.
RequestCap == IF DOMAIN ro = {} THEN MaxGateRequests ELSE MaxRequests

\* The status line the client gets: the first WriteHeader, 200 when there was none.
ClientStatus(r) == IF Len(r.written) = 0 THEN 200 ELSE r.written[1]

\* nextBackend, entry: the read lock is taken.
NBEnter(h) ==
    /\ hs[h].pc \in {"idle", "done"}
    /\ served < RequestCap
    /\ ~lbMu.writer
    /\ served' = served + 1
    /\ lbMu' = [lbMu EXCEPT !.readers = @ \cup {h}]
    /\ hs' = [hs EXCEPT ![h] = [NoRequest EXCEPT !.pc = "select",
                                                !.limited = hs[h].limited]]
    /\ recs' = Keep(recs, Range(lbBackends) \cup Building \cup Held(hs'))
    /\ UNCHANGED <<wrr, now, lbBackends, ro, gens, wrrGen, recent>>
    /\ OnlyLB

\* nextBackend, the rest: nil for an empty set, else the selector's pick is
\* turned into an index; the read lock is released. ServeHTTP answers 503 to nil.
NBSelect(h) ==
    /\ hs[h].pc = "select"
    /\ LET r     == IF Len(lbBackends) = 0 THEN [backends |-> wrr, selected |-> 0]
                    ELSE WrrNext(wrr)
           index == IF r.selected = 0 THEN 0 ELSE ParseIndex(wrr[r.selected].ID)
           b     == IF r.selected # 0 /\ index >= 0 /\ index < Len(lbBackends)
                    THEN lbBackends[index + 1] ELSE 0
           seen  == [hs[h] EXCEPT !.b = b, !.live = Len(lbBackends),
                                  !.mixed = /\ Len(lbBackends) > 0
                                            /\ \E e \in 1..Len(wrr) : wrrGen[e] # gens.live]
           log   == Append(recent, b)
       IN  /\ wrr' = r.backends
           /\ hs' = [hs EXCEPT ![h] =
                        IF b = 0
                        THEN [seen EXCEPT !.pc = "done", !.written = <<503>>, !.errs = 1]
                        ELSE [seen EXCEPT !.pc = "allow"]]
           /\ recent' = IF Len(log) > MaxList THEN Tail(log) ELSE log
    /\ lbMu' = [lbMu EXCEPT !.readers = @ \ {h}]
    /\ UNCHANGED <<now, recs, lbBackends, ro, gens, wrrGen, served>>
    /\ OnlyLB

\* A ServeHTTP that asks the limiter before the breaker: a request the breaker
\* rejects has taken its token.
HAllowTakesToken(h) ==
    /\ hs[h].pc = "allow"
    /\ LET a == CbAllowRead(recs[hs[h].b].CircuitBreaker, now)
       IN  /\ hs' = [hs EXCEPT ![h] =
                      CASE a = "admit"   -> [@ EXCEPT !.pc = "limit"]
                        [] a = "upgrade" -> [@ EXCEPT !.pc = "upgrade"]
                        [] OTHER         -> [@ EXCEPT !.pc = "done",
                                                      !.err = "CircuitOpen",
                                                      !.written = <<StatusFor("CircuitOpen")>>,
                                                      !.errs = 1]]
           /\ recs' = IF a \in {"admit", "upgrade"} THEN recs
                      ELSE [recs EXCEPT ![hs[h].b].RateLimiter =
                                            TbAllow(@, now).bucket]
    /\ UNCHANGED <<wrr, now, lbBackends, lbMu, ro, gens, wrrGen, served, recent>>
    /\ OnlyLB

\* Execute, AllowRequest under the breaker's read lock. A rejection is the
\* CircuitOpen error, which ServeHTTP answers at once.
HAllow(h) ==
    /\ hs[h].pc = "allow"
    /\ LET a == CbAllowRead(recs[hs[h].b].CircuitBreaker, now)
       IN  hs' = [hs EXCEPT ![h] =
                    CASE a = "admit"   -> [@ EXCEPT !.pc = "limit"]
                      [] a = "upgrade" -> [@ EXCEPT !.pc = "upgrade"]
                      [] OTHER         -> [@ EXCEPT !.pc = "done",
                                                    !.err = "CircuitOpen",
                                                    !.written = <<StatusFor("CircuitOpen")>>,
                                                    !.errs = 1]]
    /\ UNCHANGED <<wrr, now, recs, lbBackends, lbMu, ro, gens, wrrGen, served, recent>>
    /\ OnlyLB

\* AllowRequest under the breaker's write lock: Open becomes HalfOpen.
HUpgrade(h) ==
    /\ hs[h].pc = "upgrade"
    /\ recs' = [recs EXCEPT ![hs[h].b].CircuitBreaker = CbUpgrade(@)]
    /\ hs' = [hs EXCEPT ![h].pc = "limit"]
    /\ UNCHANGED <<wrr, now, lbBackends, lbMu, ro, gens, wrrGen, served, recent>>
    /\ OnlyLB

\* The operation, up to the start of the proxy goroutine: RateLimiter.Allow,
\* then requests_total.
HLimit(h) ==
    /\ hs[h].pc = "limit"
    /\ LET r == TbAllow(recs[hs[h].b].RateLimiter, now)
       IN  /\ recs' = [recs EXCEPT ![hs[h].b].RateLimiter = r.bucket]
           /\ hs' = [hs EXCEPT ![h] =
                        IF r.err = "nil"
                        THEN [@ EXCEPT !.pc = "proxy", !.start = now, !.reqs = 1]
                        ELSE [@ EXCEPT !.pc = "record", !.err = r.err]]
    /\ UNCHANGED <<wrr, now, lbBackends, lbMu, ro, gens, wrrGen, served, recent>>
    /\ OnlyLB

\* The select of the operation, errChan first: the proxy has relayed the
\* backend's status line through the wrapped writer (502 from the proxy's own
\* error handler when the backend cannot be reached); 500 and above is an error.
HProxy(h, status) ==
    /\ hs[h].pc = "proxy"
    /\ now - hs[h].start <= RequestTimeout
    /\ hs' = [hs EXCEPT ![h] =
                 IF status >= 500
                 THEN [@ EXCEPT !.pc = "record", !.written = Append(@, status),
                                !.err = "backend error", !.errs = @ + 1]
                 ELSE [@ EXCEPT !.pc = "record", !.written = Append(@, status)]]
    /\ UNCHANGED <<wrr, now, recs, lbBackends, lbMu, ro, gens, wrrGen, served, recent>>
    /\ OnlyLB

\* The select of the operation, the timer first.
HTimeout(h) ==
    /\ hs[h].pc = "proxy"
    /\ now - hs[h].start >= RequestTimeout
    /\ hs' = [hs EXCEPT ![h] = [@ EXCEPT !.pc = "record", !.err = "Timeout",
                                         !.errs = @ + 1]]
    /\ UNCHANGED <<wrr, now, recs, lbBackends, lbMu, ro, gens, wrrGen, served, recent>>
    /\ OnlyLB

\* The run of rate-limited requests as it stands when request r has been
\* recorded at time t.
LimitedRun(r, t) ==
    IF r.err = "RateLimitExceeded"
    THEN [b |-> r.b, t |-> t, n |-> IF r.limited.b = r.b THEN r.limited.n + 1 ELSE 1]
    ELSE NoneLimited

\* An Execute that does not record the error of the limiter.
HRecordSkipsLimited(h) ==
    /\ hs[h].pc = "record"
    /\ recs' = [recs EXCEPT ![hs[h].b].CircuitBreaker =
                    IF hs[h].err = "RateLimitExceeded" THEN @
                    ELSE CbRecordResult(@, hs[h].err # "nil", now)]
    /\ hs' = [hs EXCEPT ![h] =
                 IF hs[h].err = "nil"
                 THEN [@ EXCEPT !.pc = "done", !.limited = NoneLimited]
                 ELSE [@ EXCEPT !.pc = "done",
                                !.written = Append(@, StatusFor(hs[h].err)),
                                !.errs = @ + 1,
                                !.limited = LimitedRun(hs[h], now)]]
    /\ UNCHANGED <<wrr, now, lbBackends, lbMu, ro, gens, wrrGen, served, recent>>
    /\ OnlyLB

\* Execute, RecordResult; then ServeHTTP answers an error through the status
\* switch and counts it.
HRecord(h) ==
    /\ hs[h].pc = "record"
    /\ recs' = [recs EXCEPT ![hs[h].b].CircuitBreaker =
                    CbRecordResult(@, hs[h].err # "nil", now)]
    /\ hs' = [hs EXCEPT ![h] =
                 IF hs[h].err = "nil"
                 THEN [@ EXCEPT !.pc = "done", !.limited = NoneLimited]
                 ELSE [@ EXCEPT !.pc = "done",
                                !.written = Append(@, StatusFor(hs[h].err)),
                                !.errs = @ + 1,
                                !.limited = LimitedRun(hs[h], now)]]
    /\ UNCHANGED <<wrr, now, lbBackends, lbMu, ro, gens, wrrGen, served, recent>>
    /\ OnlyLB

\* The copy Rollout / Rollback takes of the live set: its URLs as strings.
Snapshot(rs, bs) == [k \in 1..Len(bs) |-> UrlString(rs[bs[k]].URL)]

\* Rollout / Rollback return: the locals are gone; the call's arguments, its
\* context and its outcome stay on record.
Returned(c, result) ==
    [ro EXCEPT ![c] = [@ EXCEPT !.pc = "idle", !.result = result, !.i = 0,
                                !.ulist = << >>, !.k = 0, !.new = << >>,
                                !.restore = FALSE]]

\* Rollout and Rollback are the same code but for the names of their
\* arguments and the wording of their errors; a caller stands for both.
\* Up to the loop: an empty list is an error; a batch size of 0 or less
\* becomes 1; the URLs of the live set are copied under the read lock.
\* done: the context handed in is already cancelled.
\* History: before is the live set and the number of updateBackends calls as
\* the call found them, lastInst the latest updateBackends call of this caller,
\* afterBatch whether a batch had been installed when the context was cancelled.
RolloutStart(c, list, size, done) ==
    /\ c \in DOMAIN ro
    /\ ro[c].pc = "idle"
    /\ ro[c].calls < MaxRollouts
    /\ ~lbMu.writer
    /\ LET seen == [NoRollout EXCEPT
                       !.list = list, !.ctxDone = done, !.calls = ro[c].calls + 1,
                       !.before = [urls |-> [k \in 1..Len(lbBackends) |->
                                                recs[lbBackends[k]].URL],
                                   calls |-> gens.calls]]
       IN  ro' = [ro EXCEPT ![c] =
                     IF Len(list) = 0
                     THEN [seen EXCEPT !.result = "empty"]
                     ELSE [seen EXCEPT !.pc = "loop",
                                       !.batch = RolloutBatchSize(size),
                                       !.old = Snapshot(recs, lbBackends)]]
    /\ UNCHANGED <<wrr, now, recs, lbBackends, lbMu, hs, gens, wrrGen, served, recent>>
    /\ OnlyLB

\* The context is cancelled while the call runs.
Cancel(c) ==
    /\ c \in DOMAIN ro
    /\ ro[c].pc # "idle"
    /\ ~ro[c].ctxDone
    /\ ro' = [ro EXCEPT ![c].ctxDone = TRUE,
                        ![c].afterBatch = ro[c].pc = "sleep" \/ ro[c].i > 0]
    /\ UNCHANGED <<wrr, now, recs, lbBackends, lbMu, hs, gens, wrrGen, served, recent>>
    /\ OnlyLB

\* The loop condition fails: return nil.
RolloutReturn(c) ==
    /\ c \in DOMAIN ro
    /\ ro[c].pc = "loop"
    /\ ro[c].i >= Len(ro[c].list)
    /\ ro' = Returned(c, "ok")
    /\ recent' = << >>
    /\ UNCHANGED <<wrr, now, recs, lbBackends, lbMu, hs, gens, wrrGen, served>>
    /\ OnlyLB

\* The select at the top of a round finds the context done: return ctx.Err().
RolloutCancelled(c) ==
    /\ c \in DOMAIN ro
    /\ ro[c].pc = "loop"
    /\ ro[c].i < Len(ro[c].list)
    /\ ro[c].ctxDone
    /\ ro' = Returned(c, "cancelled")
    /\ recent' = << >>
    /\ UNCHANGED <<wrr, now, recs, lbBackends, lbMu, hs, gens, wrrGen, served>>
    /\ OnlyLB

\* The default case: updateBackends is called with the batch and takes the
\* write lock.
RolloutInstall(c) ==
    /\ c \in DOMAIN ro
    /\ ro[c].pc = "loop"
    /\ ro[c].i < Len(ro[c].list)
    /\ ~ro[c].ctxDone
    /\ ~lbMu.writer /\ lbMu.readers = {}
    /\ lbMu' = [lbMu EXCEPT !.writer = TRUE]
    /\ ro' = [ro EXCEPT ![c] =
                 [@ EXCEPT !.pc = "ub",
                           !.ulist = RolloutBatch(ro[c].list, ro[c].i, ro[c].batch),
                           !.k = 0, !.new = << >>, !.lastInst = gens.calls + 1]]
    /\ gens' = [gens EXCEPT !.calls = @ + 1]
    /\ UNCHANGED <<wrr, now, recs, lbBackends, hs, wrrGen, served, recent>>
    /\ OnlyLB

\* updateBackends, one round of the loop for a URL that parses.
UBAdd(c) ==
    /\ c \in DOMAIN ro
    /\ ro[c].pc = "ub"
    /\ ro[c].k < Len(ro[c].ulist)
    /\ UrlParse(ro[c].ulist[ro[c].k + 1]).ok
    /\ LET st == UbStep([recs |-> recs, wrr |-> wrr, wrrGen |-> wrrGen,
                         new |-> ro[c].new],
                        UrlParse(ro[c].ulist[ro[c].k + 1]).url, ro[c].k,
                        ro[c].lastInst, now)
       IN  /\ recs' = st.recs
           /\ wrr' = st.wrr
           /\ wrrGen' = st.wrrGen
           /\ ro' = [ro EXCEPT ![c].new = st.new, ![c].k = @ + 1]
    /\ UNCHANGED <<now, lbBackends, lbMu, hs, gens, served, recent>>
    /\ OnlyLB

\* updateBackends, a URL that does not parse: ConfigInvalid is returned and the
\* lock released; Rollout / Rollback goes on to put the copied URLs back, and
\* returns its error when that was already what failed.
UBFail(c) ==
    /\ c \in DOMAIN ro
    /\ ro[c].pc = "ub"
    /\ ro[c].k < Len(ro[c].ulist)
    /\ ~UrlParse(ro[c].ulist[ro[c].k + 1]).ok
    /\ lbMu' = [lbMu EXCEPT !.writer = FALSE]
    /\ recs' = Keep(recs, Range(lbBackends) \cup Held(hs))
    /\ ro' = IF ro[c].restore THEN Returned(c, "failed")
             ELSE [ro EXCEPT ![c] = [@ EXCEPT !.pc = "restore", !.ulist = << >>,
                                              !.k = 0, !.new = << >>]]
    /\ UNCHANGED <<wrr, now, lbBackends, hs, gens, wrrGen, served, recent>>
    /\ OnlyLB

\* updateBackends is called with the copied URLs and takes the write lock.
RolloutRestore(c) ==
    /\ c \in DOMAIN ro
    /\ ro[c].pc = "restore"
    /\ ~lbMu.writer /\ lbMu.readers = {}
    /\ lbMu' = [lbMu EXCEPT !.writer = TRUE]
    /\ ro' = [ro EXCEPT ![c] =
                 [@ EXCEPT !.pc = "ub", !.ulist = ro[c].old, !.k = 0, !.new = << >>,
                           !.restore = TRUE, !.lastInst = gens.calls + 1]]
    /\ gens' = [gens EXCEPT !.calls = @ + 1]
    /\ UNCHANGED <<wrr, now, recs, lbBackends, hs, wrrGen, served, recent>>
    /\ OnlyLB

\* updateBackends, after the loop: newBackends becomes the live set and the
\* lock is released. After a batch the caller sleeps; after putting the copied
\* URLs back it returns its error.
UBCommit(c) ==
    /\ c \in DOMAIN ro
    /\ ro[c].pc = "ub"
    /\ ro[c].k = Len(ro[c].ulist)
    /\ lbBackends' = ro[c].new
    /\ lbMu' = [lbMu EXCEPT !.writer = FALSE]
    /\ gens' = [gens EXCEPT !.live = ro[c].lastInst]
    /\ recs' = Keep(recs, Range(ro[c].new) \cup Held(hs))
    /\ ro' = IF ro[c].restore THEN Returned(c, "failed")
             ELSE [ro EXCEPT ![c] = [@ EXCEPT !.pc = "sleep", !.ulist = << >>,
                                              !.k = 0, !.new = << >>]]
    /\ recent' = << >>
    /\ UNCHANGED <<wrr, now, hs, wrrGen, served>>
    /\ OnlyLB

\* The sleep is over: the next round.
RolloutWake(c) ==
    /\ c \in DOMAIN ro
    /\ ro[c].pc = "sleep"
    /\ ro' = [ro EXCEPT ![c].pc = "loop", ![c].i = @ + ro[c].batch]
    /\ UNCHANGED <<wrr, now, recs, lbBackends, lbMu, hs, gens, wrrGen, served, recent>>
    /\ OnlyLB

\* Time passes.
LbTick ==
    /\ now < MaxLbTime
    /\ now' = now + 1
    /\ UNCHANGED <<wrr, recs, lbBackends, lbMu, hs, ro, gens, wrrGen, served, recent>>
    /\ OnlyLB

\* What a backend may answer.
BackendStatuses == {200, 500, 502}

\* The balancer New returns for a list of URLs that parse.
Constructed ==
    \E list \in ListsOf(GoodUrls) :
        LET st == UbRun([recs |-> << >>, wrr |-> NewWeightedRoundRobin,
                         wrrGen |-> << >>, new |-> << >>], list, 0, 1, 0)
        IN  /\ recs = st.recs
            /\ wrr = st.wrr
            /\ wrrGen = st.wrrGen
            /\ lbBackends = st.new

Init ==
    /\ Constructed
    /\ now = 0
    /\ lbMu = [writer |-> FALSE, readers |-> {}]
    /\ hs = [h \in Handlers |-> NoRequest]
    /\ ro = [c \in {1} |-> NoRollout]
    /\ gens = [calls |-> 1, live |-> 1]
    /\ served = 0
    /\ recent = << >>
    /\ wlog = << >>
    /\ wclean = TRUE
    /\ wops = 0
    /\ IdleCB
    /\ IdleTB
    /\ IdleWin
    /\ IdleStart
    /\ IdleSsl

Next ==
    \/ \E h \in Handlers : NBEnter(h)
    \/ \E h \in Handlers : NBSelect(h)
    \/ \E h \in Handlers : HAllow(h)
    \/ \E h \in Handlers : HUpgrade(h)
    \/ \E h \in Handlers : HLimit(h)
    \/ \E h \in Handlers, status \in BackendStatuses : HProxy(h, status)
    \/ \E h \in Handlers : HTimeout(h)
    \/ \E h \in Handlers : HRecord(h)
    \/ \E c \in Callers, list \in ListsOf(Urls), size \in 0..MaxBatch, done \in BOOLEAN :
          RolloutStart(c, list, size, done)
    \/ \E c \in Callers : Cancel(c)
    \/ \E c \in Callers : RolloutReturn(c)
    \/ \E c \in Callers : RolloutCancelled(c)
    \/ \E c \in Callers : RolloutInstall(c)
    \/ \E c \in Callers : UBAdd(c)
    \/ \E c \in Callers : UBFail(c)
    \/ \E c \in Callers : RolloutRestore(c)
    \/ \E c \in Callers : UBCommit(c)
    \/ \E c \in Callers : RolloutWake(c)
    \/ LbTick

Spec == Init /\ [][Next]_vars

----------------------------------------------------------------------------
(* Two callers of Rollout / Rollback on one balancer, no request under way; *)
(* a context is cancelled from the start or not at all                    *)

InitPair ==
    /\ Constructed
    /\ now = 0
    /\ lbMu = [writer |-> FALSE, readers |-> {}]
    /\ hs = << >>
    /\ ro = [c \in Callers |-> NoRollout]
    /\ gens = [calls |-> 1, live |-> 1]
    /\ served = 0
    /\ recent = << >>
    /\ wlog = << >>
    /\ wclean = TRUE
    /\ wops = 0
    /\ IdleCB
    /\ IdleTB
    /\ IdleWin
    /\ IdleStart
    /\ IdleSsl

NextPair ==
    \/ \E c \in Callers, list \in ListsOf(Urls), size \in 0..MaxBatch, done \in BOOLEAN :
          RolloutStart(c, list, size, done)
    \/ \E c \in Callers : RolloutReturn(c)
    \/ \E c \in Callers : RolloutCancelled(c)
    \/ \E c \in Callers : RolloutInstall(c)
    \/ \E c \in Callers : UBAdd(c)
    \/ \E c \in Callers : UBFail(c)
    \/ \E c \in Callers : RolloutRestore(c)
    \/ \E c \in Callers : UBCommit(c)
    \/ \E c \in Callers : RolloutWake(c)

SpecPair == InitPair /\ [][NextPair]_vars

----------------------------------------------------------------------------
(* Requests alone, one after the other, on a balancer nobody reconfigures *)

InitGates ==
    /\ Constructed
    /\ now = 0
    /\ lbMu = [writer |-> FALSE, readers |-> {}]
    /\ hs = [h \in Handlers |-> NoRequest]
    /\ ro = << >>
    /\ gens = [calls |-> 1, live |-> 1]
    /\ served = 0
    /\ recent = << >>
    /\ wlog = << >>
    /\ wclean = TRUE
    /\ wops = 0
    /\ IdleCB
    /\ IdleTB
    /\ IdleWin
    /\ IdleStart
    /\ IdleSsl

NextGates ==
    \/ \E h \in Handlers : NBEnter(h)
    \/ \E h \in Handlers : NBSelect(h)
    \/ \E h \in Handlers : HAllow(h)
    \/ \E h \in Handlers : HUpgrade(h)
    \/ \E h \in Handlers : HLimit(h)
    \/ \E h \in Handlers, status \in BackendStatuses : HProxy(h, status)
    \/ \E h \in Handlers : HTimeout(h)
    \/ \E h \in Handlers : HRecord(h)
    \/ LbTick

SpecGates == InitGates /\ [][NextGates]_vars

----------------------------------------------------------------------------
(* LoadBalancer.Start *)

Frontends == {1, 2}   \* lb.config.Frontends
MaxInflight == 2      \* the requests in flight at one frontend server

\* A frontend: serve is where the goroutine running ListenAndServe is ("starting",
\* "serving", or "returned" once it has called wg.Done), shut where the goroutine
\* that waits for ctx.Done() and calls server.Shutdown is ("waiting", "draining"
\* inside Shutdown, "done"), inflight the requests whose handlers are running.
NoFrontend == [serve |-> "starting", shut |-> "waiting", inflight |-> 0]

\* Start right after it has launched its goroutines: errs is the content of
\* errChan (each error named by the frontend it came from), closed whether
\* errChan is closed, result and resultOf what Start returned. History:
\* atReturn is the number of handlers running when Start returned, lateAccept
\* whether a connection was accepted by a server after its Shutdown was called,
\* failed the frontends whose listener has failed, in the order they failed.
Started ==
    [ pc |-> "running", ctxDone |-> FALSE, fe |-> [f \in Frontends |-> NoFrontend],
      errs |-> << >>, closed |-> FALSE, result |-> "none", resultOf |-> 0,
      cancelled |-> FALSE, atReturn |-> 0, lateAccept |-> FALSE, failed |-> << >> ]

OnlyStart == UNCHANGED <<wrrVars, now, cbVars, tbVars, lbVars, winVars, ssl>>

RECURSIVE InFlight(_, _)
InFlight(fe, S) ==
    IF S = {} THEN 0
    ELSE LET f == CHOOSE x \in S : TRUE
         IN  fe[f].inflight + InFlight(fe, S \ {f})

\* ListenAndServe begins to listen; on a server already shut down it returns
\* http.ErrServerClosed at once, and nothing is sent to errChan.
SListen(f) ==
    /\ srv.fe[f].serve = "starting"
    /\ srv' = [srv EXCEPT !.fe[f].serve = IF srv.fe[f].shut = "waiting"
                                          THEN "serving" ELSE "returned"]
    /\ OnlyStart

\* ListenAndServe fails (the port is taken): the error goes to errChan.
SListenFail(f) ==
    /\ srv.fe[f].serve = "starting"
    /\ srv.fe[f].shut = "waiting"
    /\ srv' = [srv EXCEPT !.fe[f].serve = "returned", !.errs = Append(@, f),
                          !.failed = Append(@, f)]
    /\ OnlyStart

\* A connection is accepted and ServeHTTP begins.
SAccept(f) ==
    /\ srv.fe[f].serve = "serving"
    /\ srv.fe[f].shut = "waiting"
    /\ srv.fe[f].inflight < MaxInflight
    /\ srv' = [srv EXCEPT !.fe[f].inflight = @ + 1,
                          !.lateAccept = @ \/ srv.fe[f].shut # "waiting"]
    /\ OnlyStart

\* A handler returns.
SHandlerDone(f) ==
    /\ srv.fe[f].inflight > 0
    /\ srv' = [srv EXCEPT !.fe[f].inflight = @ - 1]
    /\ OnlyStart

\* The outer context is cancelled.
SCancel ==
    /\ ~srv.ctxDone
    /\ srv' = [srv EXCEPT !.ctxDone = TRUE]
    /\ OnlyStart

\* <-ctx.Done() returns and server.Shutdown(context.Background()) is called: the
\* listener is closed.
SShutdown(f) ==
    /\ srv.ctxDone
    /\ srv.fe[f].shut = "waiting"
    /\ srv' = [srv EXCEPT !.fe[f].shut = "draining"]
    /\ OnlyStart

\* A goroutine that would report http.ErrServerClosed like any other error.
SServeReturnReports(f) ==
    /\ srv.fe[f].serve = "serving"
    /\ srv.fe[f].shut # "waiting"
    /\ srv' = [srv EXCEPT !.fe[f].serve = "returned", !.errs = Append(@, f)]
    /\ OnlyStart

\* ListenAndServe returns http.ErrServerClosed as soon as Shutdown has been
\* called; the goroutine sends nothing and calls wg.Done.
SServeReturn(f) ==
    /\ srv.fe[f].serve = "serving"
    /\ srv.fe[f].shut # "waiting"
    /\ srv' = [srv EXCEPT !.fe[f].serve = "returned"]
    /\ OnlyStart

\* Shutdown returns once no connection is active; its context has no deadline.
SShutdownDone(f) ==
    /\ srv.fe[f].shut = "draining"
    /\ srv.fe[f].inflight = 0
    /\ srv' = [srv EXCEPT !.fe[f].shut = "done"]
    /\ OnlyStart

\* wg.Wait() returns and errChan is closed.
SWaitDone ==
    /\ ~srv.closed
    /\ \A f \in Frontends : srv.fe[f].serve = "returned"
    /\ srv' = [srv EXCEPT !.closed = TRUE]
    /\ OnlyStart

\* The range over errChan: the first error is returned; nil when the channel is
\* closed and empty.
SReturn ==
    /\ srv.pc = "running"
    /\ srv.errs # << >> \/ srv.closed
    /\ srv' = [srv EXCEPT !.pc = "returned",
                          !.result = IF srv.errs # << >> THEN "error" ELSE "nil",
                          !.resultOf = IF srv.errs # << >> THEN Head(srv.errs) ELSE 0,
                          !.errs = IF @ # << >> THEN Tail(@) ELSE @,
                          !.cancelled = srv.ctxDone,
                          !.atReturn = InFlight(srv.fe, Frontends)]
    /\ OnlyStart

InitStart ==
    /\ IdleWRR
    /\ IdleCB
    /\ IdleTB
    /\ IdleLB
    /\ IdleWin
    /\ IdleSsl
    /\ now = 0
    /\ srv = Started

NextStart ==
    \/ \E f \in Frontends : SListen(f)
    \/ \E f \in Frontends : SListenFail(f)
    \/ \E f \in Frontends : SAccept(f)
    \/ \E f \in Frontends : SHandlerDone(f)
    \/ SCancel
    \/ \E f \in Frontends : SShutdown(f)
    \/ \E f \in Frontends : SServeReturn(f)
    \/ \E f \in Frontends : SShutdownDone(f)
    \/ SWaitDone
    \/ SReturn

SpecStart == InitStart /\ [][NextStart]_vars

\* Every goroutine Start launches is scheduled again and again, and so is the
\* caller of Start.
FairStart ==
    /\ WF_vars(\E f \in Frontends : SListen(f) \/ SListenFail(f))
    /\ WF_vars(\E f \in Frontends : SShutdown(f))
    /\ WF_vars(\E f \in Frontends : SServeReturn(f))
    /\ WF_vars(SWaitDone)
    /\ WF_vars(SReturn)

SpecStartFair == SpecStart /\ FairStart

----------------------------------------------------------------------------
(* internal/ssl: Manager *)

SslCallers == {1, 2}

\* What a CA file name may be: none, a file that loads, a file that does not.
CAFiles == {"", "ca.pem", "missing.pem"}

ClientAuths == {"NoClientCert", "RequireAndVerifyClientCert"}

\* A caller between calls. op is the method it called last, res what that
\* returned, auth the client-auth mode of the TLS configuration when it
\* returned; built is the tls.Config under construction in loadCertificates.
NoSslCall ==
    [ at |-> "idle", op |-> "none", res |-> "none", auth |-> "none",
      built |-> [ClientAuth |-> "none", ClientCAs |-> FALSE] ]

\* The tls.Config loadCertificates builds from a configuration.
SslBuild(config) ==
    [ClientAuth |-> config.ClientAuth, ClientCAs |-> config.CAFile # ""]

\* The manager New returns for a configuration whose files load. mu is 0 when
\* no one holds the write lock, and the caller that holds it otherwise.
SslNew(config) ==
    [ mu |-> 0, config |-> config, tlsConfig |-> SslBuild(config),
      pc |-> [c \in SslCallers |-> NoSslCall] ]

OnlySsl == UNCHANGED <<wrrVars, now, cbVars, tbVars, lbVars, winVars, srv>>

\* EnableMutualTLS up to its call of loadCertificates: m.mu is taken and stays
\* held until the method returns (defer).
SslEnable(c, caFile) ==
    /\ ssl.pc[c].at = "idle"
    /\ ssl.mu = 0
    /\ ssl' = [ssl EXCEPT !.mu = c,
                          !.config = [CAFile |-> caFile,
                                      ClientAuth |-> "RequireAndVerifyClientCert"],
                          !.pc[c] = [NoSslCall EXCEPT !.at = "load", !.op = "enable"]]
    /\ OnlySsl

\* DisableMutualTLS up to its call of loadCertificates.
SslDisable(c) ==
    /\ ssl.pc[c].at = "idle"
    /\ ssl.mu = 0
    /\ ssl' = [ssl EXCEPT !.mu = c,
                          !.config = [CAFile |-> "", ClientAuth |-> "NoClientCert"],
                          !.pc[c] = [NoSslCall EXCEPT !.at = "load", !.op = "disable"]]
    /\ OnlySsl

\* ReloadCertificates calls loadCertificates without taking m.mu.
SslReload(c) ==
    /\ ssl.pc[c].at = "idle"
    /\ ssl' = [ssl EXCEPT !.pc[c] = [NoSslCall EXCEPT !.at = "load", !.op = "reload"]]
    /\ OnlySsl

\* loadCertificates up to its m.mu.Lock(): the files are read and the tls.Config
\* is built; when a file does not load the error is returned, and the deferred
\* Unlock of the calling method releases m.mu.
SslLoad(c, certOk) ==
    /\ ssl.pc[c].at = "load"
    /\ IF certOk /\ ssl.config.CAFile # "missing.pem"
       THEN ssl' = [ssl EXCEPT !.pc[c].at = "lock",
                               !.pc[c].built = SslBuild(ssl.config)]
       ELSE ssl' = [ssl EXCEPT !.pc[c].at = "idle",
                               !.pc[c].res = "error",
                               !.pc[c].auth = ssl.tlsConfig.ClientAuth,
                               !.mu = IF @ = c THEN 0 ELSE @]
    /\ OnlySsl

\* loadCertificates from m.mu.Lock() to its return, and the return of the
\* method that called it. sync.RWMutex is not reentrant: Lock waits until no one
\* holds the lock, the caller itself included.
SslLoadLock(c) ==
    /\ ssl.pc[c].at = "lock"
    /\ ssl.mu = 0
    /\ ssl' = [ssl EXCEPT !.tlsConfig = ssl.pc[c].built,
                          !.pc[c].at = "idle",
                          !.pc[c].res = "nil",
                          !.pc[c].auth = ssl.pc[c].built.ClientAuth]
    /\ OnlySsl

\* GetTLSConfig: a read lock, which waits while the write lock is held.
SslGet(c) ==
    /\ ssl.pc[c].at = "idle"
    /\ ssl.mu = 0
    /\ ssl' = [ssl EXCEPT !.pc[c] = [NoSslCall EXCEPT !.op = "get", !.res = "nil",
                                                     !.auth = ssl.tlsConfig.ClientAuth]]
    /\ OnlySsl

InitSsl ==
    /\ IdleWRR
    /\ IdleCB
    /\ IdleTB
    /\ IdleLB
    /\ IdleWin
    /\ IdleStart
    /\ now = 0
    /\ \E ca \in {"", "ca.pem"}, auth \in ClientAuths :
          ssl = SslNew([CAFile |-> ca, ClientAuth |-> auth])

NextSsl ==
    \/ \E c \in SslCallers, ca \in CAFiles : SslEnable(c, ca)
    \/ \E c \in SslCallers : SslDisable(c)
    \/ \E c \in SslCallers : SslReload(c)
    \/ \E c \in SslCallers, certOk \in BOOLEAN : SslLoad(c, certOk)
    \/ \E c \in SslCallers : SslLoadLock(c)
    \/ \E c \in SslCallers : SslGet(c)

SpecSsl == InitSsl /\ [][NextSsl]_vars

----------------------------------------------------------------------------
(* Reset of the selector and of the breaker *)

MaxResetPicks == 2    \* the calls of Next made before the first Reset

RECURSIVE NextTimes(_, _)
NextTimes(bs, k) == IF k = 0 THEN bs ELSE NextTimes(WrrNext(bs).backends, k - 1)

RECURSIVE RecordTimes(_, _, _, _)
RecordTimes(b, failed, t, k) ==
    IF k = 0 THEN b ELSE RecordTimes(CbRecordResult(b, failed, t), failed, t, k - 1)

\* A selector after two calls of Add, one of AdjustWeight and some of Next; a
\* breaker after some failed operations, possibly the switch to HalfOpen, and
\* some successful operations.
InitReset ==
    /\ \E w1 \in 0..MaxWeight, w2 \in 0..MaxWeight, d \in {-1, 1, 2 * MaxWeight},
          k \in 0..MaxResetPicks :
          wrr = NextTimes(WrrAdjustWeight(WrrAdd(WrrAdd(NewWeightedRoundRobin, "a", w1),
                                                 "b", w2), "a", d), k)
    /\ wlog = << >>
    /\ wclean = FALSE
    /\ wops = 0
    /\ now = MaxTime
    /\ \E th \in 1..MaxThreshold, ho \in 1..MaxHalfOpen, fails \in 0..MaxThreshold,
          up \in BOOLEAN, oks \in 0..MaxHalfOpen :
          LET b0 == RecordTimes(CbNew(th, 1, ho), TRUE, 1, fails)
              b1 == IF up /\ b0.state = "Open" THEN CbUpgrade(b0) ELSE b0
          IN  cb = RecordTimes(b1, FALSE, 2, oks)
    /\ cbPc = [c \in {1} |-> "idle"]
    /\ cbHist = NoHist
    /\ IdleTB
    /\ IdleWin
    /\ IdleStart
    /\ IdleSsl
    /\ IdleLB

NextReset == WReset \/ CBReset

SpecReset == InitReset /\ [][NextReset]_vars

----------------------------------------------------------------------------
(* internal/errors, and the errors Rollout and Rollback return *)

\* An error value: nil, a *LoadBalancerError with its code and the error it
\* wraps, or an error of another type with the error Unwrap gives (nil when it
\* has none).
NilErr == [kind |-> "nil"]
ErrNew(code, err) == [kind |-> "LoadBalancerError", Code |-> code, Err |-> err]
OtherErr(err) == [kind |-> "other", Err |-> err]

\* fmt.Errorf with one error operand: only the verb %w keeps the operand as the
\* wrapped error; %v formats its text into the message.
FmtErrorf(verb, err) == OtherErr(IF verb = "%w" THEN err ELSE NilErr)

\* GetCode: errors.As follows Unwrap to the first *LoadBalancerError; "" when
\* there is none.
RECURSIVE GetCode(_)
GetCode(err) ==
    CASE err.kind = "nil" -> ""
      [] err.kind = "LoadBalancerError" -> err.Code
      [] OTHER -> GetCode(err.Err)

\* What updateBackends returns for a URL that does not parse.
UbParseError == ErrNew("CONFIG_INVALID", OtherErr(NilErr))

\* The error value Rollout / Rollback returns, by the way the call ended.
RolloutError(result) ==
    CASE result = "ok"        -> NilErr
      [] result = "empty"     -> OtherErr(NilErr)
      [] result = "cancelled" -> OtherErr(NilErr)
      [] result = "failed"    -> FmtErrorf("%v", UbParseError)
      [] OTHER                -> NilErr

----------------------------------------------------------------------------
(* C1 *)

RECURSIVE SumEffective(_, _)
SumEffective(bs, i) ==
    IF i > Len(bs) THEN 0 ELSE bs[i].EffectiveWeight + SumEffective(bs, i + 1)

PicksIn(log, from, to, i) == Cardinality({j \in from..to : log[j] = i})

\* Every run of k*W consecutive picks in the log holds entry i exactly k*w_i times.
ExactShares ==
    LET W == SumEffective(wrr, 1)
    IN  \A from \in 1..Len(wlog), k \in 1..MaxWrrLog :
            (W > 0 /\ from + k * W - 1 <= Len(wlog)) =>
                \A i \in 1..Len(wrr) :
                    PicksIn(wlog, from, from + k * W - 1, i) = k * wrr[i].EffectiveWeight

\* C1 as stated: for a selector with weights w_i summing to W and no membership
\* or weight change in between, every run of k*W consecutive Next() calls
\* selects backend i exactly k*w_i times.
C1_AnyRunExact == ExactShares

\* C1 amended: the same, for runs that follow a membership or weight change
\* (Add, Remove, UpdateWeight, AdjustWeight, Reset) which left every current
\* weight at 0: a selector freshly built by Add, or just Reset.
C1_ExactFromZero == wclean => ExactShares

\* Two full cycles of a clean selector with weights 2 and 1, after a Reset.
C1_Witness ==
    /\ wclean
    /\ Len(wrr) = 2
    /\ wrr[1].EffectiveWeight = 2 /\ wrr[2].EffectiveWeight = 1
    /\ Len(wlog) = 6
    /\ wops = 3

----------------------------------------------------------------------------
(* C2 *)

\* A failure recorded while Closed leaves the breaker Open exactly when it is
\* the threshold-th failed operation in a row.
TripsAtThreshold ==
    (cbHist.last = "fail" /\ cbHist.from = "Closed") =>
        /\ cbHist.failRun <= cb.threshold
        /\ cb.state = "Open" <=> cbHist.failRun = cb.threshold

\* A call made while Open is rejected (CircuitOpen, the operation not started,
\* the breaker untouched) exactly when no more than the open timeout has passed
\* since the last failure; otherwise it is admitted and the breaker is HalfOpen.
OpenAdmission ==
    /\ (cbHist.last \in {"reject", "upgrade", "admit"} /\ cbHist.from = "Open") =>
          (cbHist.last = "reject" <=> ~cbHist.late)
    /\ cbHist.last = "reject" =>
          /\ cbHist.from = "Open"
          /\ cb.state = "Open"
          /\ \A c \in DOMAIN cbPc : cbPc[c] = "idle"
    /\ (cbHist.last = "admit" /\ cbHist.from = "Open") =>
          /\ cb.state = "HalfOpen"
          /\ \E c \in DOMAIN cbPc : cbPc[c] = "running"

\* A success recorded while HalfOpen leaves the breaker Closed exactly when it
\* is the halfOpenMax-th success in a row, and then the failure count is 0.
ClosesAfterProbes ==
    (cbHist.last = "ok" /\ cbHist.from = "HalfOpen") =>
        /\ cbHist.okRun <= cb.halfOpenMax
        /\ cb.state = "Closed" <=> cbHist.okRun = cb.halfOpenMax
        /\ cb.state = "Closed" => cb.failures = 0

\* C2: a breaker starting Closed is Open after exactly threshold failing Execute
\* calls in a row and rejects the next call with CircuitOpen without running
\* it; once more than the open timeout has passed the next call is admitted
\* and the state is HalfOpen; after halfOpenMax successes in a row in HalfOpen
\* the state is Closed and the failure counter is zero.
C2_BreakerCycle == TripsAtThreshold /\ OpenAdmission /\ ClosesAfterProbes

\* The end of a full cycle: tripped by 2 failures, reopened for probes after the
\* timeout, closed again by the second success.
C2_Witness ==
    /\ cb.threshold = 2 /\ cb.halfOpenMax = 2
    /\ cbHist.last = "ok" /\ cbHist.from = "HalfOpen" /\ cbHist.okRun = 2
    /\ cb.state = "Closed" /\ cb.failures = 0
    /\ cb.lastFailure >= 0

----------------------------------------------------------------------------
(* C3 *)

----------------------------------------------------------------------------
(* C4, C5 *)

\* A request that has ended without success: no backend, or an error from Execute.
Failed(r) == r.pc = "done" /\ (r.b = 0 \/ r.err # "nil")

\* C4: every request that ends without success is answered with one status out
\* of 429, 502, 503, 504: 503 for a CircuitOpen rejection, 429 for a
\* RateLimitExceeded rejection, 502 for any other upstream failure, a backend
\* response of 500 or above among them.
C4_FailureStatusMapped ==
    \A h \in Handlers :
        Failed(hs[h]) =>
            /\ ClientStatus(hs[h]) \in {429, 502, 503, 504}
            /\ hs[h].err = "CircuitOpen" => ClientStatus(hs[h]) = 503
            /\ hs[h].err = "RateLimitExceeded" => ClientStatus(hs[h]) = 429
            /\ hs[h].err = "backend error" => ClientStatus(hs[h]) = 502

\* C5: a request whose backend has not answered when the request timeout fires
\* ends as Timeout and the client gets 504.
C5_TimeoutGives504 ==
    \A h \in Handlers :
        (hs[h].pc = "done" /\ hs[h].err = "Timeout") => ClientStatus(hs[h]) = 504

----------------------------------------------------------------------------
(* C6, C7, C8, C9 *)

Selected(r) == r.pc \notin {"idle", "select"}

\* C6: whatever the interleaving of nextBackend with updateBackends, the
\* selector entries a selection consults and the records it indexes were put
\* there by one and the same updateBackends call, never by two.
C6_SelectionSeesOneSet == \A h \in Handlers : Selected(hs[h]) => ~hs[h].mixed

\* C7: after every updateBackends call that installed a list of n URLs the
\* selector holds n entries, the k-th for the k-th live record, each of weight
\* 1 and each added by that call.
C7_SelectorRebuilt ==
    (~lbMu.writer /\ gens.live = gens.calls) =>
        /\ Len(wrr) = Len(lbBackends)
        /\ \A e \in 1..Len(wrr) :
              /\ wrr[e].Weight = 1
              /\ ParseIndex(wrr[e].ID) = e - 1
              /\ wrrGen[e] = gens.live

\* C8: nextBackend on a live set that is not empty returns one of its records,
\* never nil; and a request is answered 503 only when the live set was empty or
\* the breaker of the selected backend rejected it.
C8_NilOnlyWhenEmpty ==
    \A h \in Handlers :
        /\ (Selected(hs[h]) /\ hs[h].live > 0) => hs[h].b # 0
        /\ (hs[h].pc = "done" /\ ClientStatus(hs[h]) = 503) =>
               (hs[h].live = 0 \/ hs[h].err = "CircuitOpen")

\* The last n picks made since the live set was installed and the caller of
\* Rollout / Rollback returned.
LastPicks(n) == {recent[j] : j \in (Len(recent) - n + 1)..Len(recent)}

\* C9: with n live backends and no rollout or rollback under way, any n
\* requests in a row go to n different backends.
C9_RoundRobin ==
    LET n == Len(lbBackends)
    IN  ((\A c \in DOMAIN ro : ro[c].pc = "idle") /\ Len(recent) >= n) =>
            /\ Cardinality(LastPicks(n)) = n
            /\ 0 \notin LastPicks(n)

----------------------------------------------------------------------------
(* C10 *)

LiveUrls == [k \in 1..Len(lbBackends) |-> recs[lbBackends[k]].URL]
ListUrls(list) == [k \in 1..Len(list) |-> UrlParse(list[k]).url]

\* C10: when Rollout or Rollback returns nil, the live set is the URLs of the
\* list it was given, in the list's order and of its length, whatever the batch
\* size and the live set before. The calls are made one at a time.
C10_RolloutInstallsList ==
    \A c \in DOMAIN ro :
        (ro[c].pc = "idle" /\ ro[c].result = "ok") => LiveUrls = ListUrls(ro[c].list)

\* A call with a list of two URLs and batch size 1 has returned nil where the
\* live set before was another one.
C10_Witness ==
    \E c \in DOMAIN ro :
        /\ ro[c].pc = "idle"
        /\ ro[c].result = "ok"
        /\ Len(ro[c].list) = 2
        /\ ro[c].batch = 1
        /\ ro[c].old # [k \in 1..Len(lbBackends) |-> UrlString(LiveUrls[k])]

----------------------------------------------------------------------------
(* C11, C12, C13 *)

\* C11: when Rollout or Rollback returns an error other than the context's
\* (an empty list, or a URL that does not parse in some batch), the URLs of the
\* live set are those that were live when the call began; for an empty list
\* updateBackends is not called at all. The calls are made one at a time.
C11_ErrorRestores ==
    \A c \in DOMAIN ro :
        (ro[c].pc = "idle" /\ ro[c].result \in {"empty", "failed"}) =>
            /\ LiveUrls = ro[c].before.urls
            /\ ro[c].result = "empty" => gens.calls = ro[c].before.calls

\* A call with batch size 1 has installed its first URL, failed on its second
\* and put back a live set that was not the first URL alone.
C11_Witness ==
    \E c \in DOMAIN ro :
        /\ ro[c].pc = "idle"
        /\ ro[c].result = "failed"
        /\ ro[c].batch = 1
        /\ Len(ro[c].list) = 2
        /\ gens.calls = ro[c].before.calls + 3
        /\ ro[c].before.urls # <<UrlParse(ro[c].list[1]).url>>

\* C12: when the context is cancelled after a batch of Rollout or Rollback was
\* installed and before the last one, the live set on return is the one that
\* was live when the call began, not the batches installed so far.
C12_CancelRestores ==
    \A c \in DOMAIN ro :
        (ro[c].pc = "idle" /\ ro[c].result = "cancelled" /\ ro[c].afterBatch) =>
            LiveUrls = ro[c].before.urls

\* C13: when the context is cancelled before Rollout (with a list that is not
\* empty) is called or at any time before it returns, the wait between batches
\* included, Rollout returns the context's error.
C13_CancelIsReported ==
    \A c \in DOMAIN ro :
        (ro[c].pc = "idle" /\ ro[c].ctxDone /\ Len(ro[c].list) > 0) =>
            ro[c].result = "cancelled"

----------------------------------------------------------------------------
(* C14 *)

\* The caller has copied the live set in a call of Rollout / Rollback.
Snapped(c) == ro[c].calls > 0 /\ Len(ro[c].list) > 0

\* Every updateBackends call of c so far was made before d copied the live set.
Before(c, d) == ro[c].lastInst <= ro[d].before.calls

\* C14: of two calls of Rollout / Rollback made at the same time, one makes all
\* its installs, the restore included, before the other copies the live set.
C14_CallsSerialized ==
    \A c, d \in DOMAIN ro :
        (c # d /\ Snapped(c) /\ Snapped(d)) => (Before(c, d) \/ Before(d, c))

----------------------------------------------------------------------------
(* C15, C16, C17 *)

\* C15: an Open breaker admits a call exactly when at least the open timeout
\* has passed since the last failure, the very end of the timeout included, and
\* becomes HalfOpen only then, however the callers interleave.
C15_OpenAdmitsWhenDue ==
    /\ (cbHist.from = "Open" /\ cbHist.last = "reject") => ~cbHist.due
    /\ (cbHist.from = "Open" /\ cbHist.last = "upgrade") => cbHist.due
    /\ cbHist.upFrom # "none" => cbHist.upDue

\* C16: however the callers interleave, and Reset left aside, the breaker
\* becomes HalfOpen from Open only, never straight from Closed, and a call
\* admitted on an old reading of the state does not put a half-open success
\* count back to 0.
C16_TransitionsSerial ==
    ~cbHist.reset =>
        /\ cbHist.upFrom # "Closed"
        /\ ~cbHist.upLost

\* C17: from the breaker's becoming HalfOpen to its next change of state at
\* most halfOpenMax calls are admitted, however the callers interleave.
C17_ProbesBounded == cb.state = "HalfOpen" => cbHist.probes <= cb.halfOpenMax

----------------------------------------------------------------------------
(* C18, C19 *)

AdmittedIn(a, b) ==
    SumOver(winLog.admitted, {ts \in DOMAIN winLog.admitted : a <= ts /\ ts <= b})

\* C18: whatever the order of the Allow calls and the cleanup passes, no
\* interval as long as the window holds more than limit admitted requests; a
\* call that returns is rejected exactly when limit admitted requests have a
\* timestamp >= now - window; and a rejected call leaves the map as it was.
C18_WindowBound ==
    /\ \A a \in 0..MaxTime : AdmittedIn(a, a + win.window) <= win.limit
    /\ winLog.last \in {"nil", "limited"} =>
          (winLog.last = "limited" <=> winLog.inWin = win.limit)
    /\ winLog.last = "limited" => ~winLog.wrote

\* A call is rejected after a cleanup pass has evicted an admitted request, with
\* a limit of 2 reached by requests of two different instants.
C18_Witness ==
    /\ winLog.last = "limited"
    /\ ~winLog.stopped
    /\ win.limit = 2
    /\ winLog.passes > 0
    /\ DOMAIN win.requests # DOMAIN winLog.admitted
    /\ Cardinality(DOMAIN win.requests) = 2

\* C19: once Stop has been called the cleanup goroutine runs no further pass.
C19_NoPassAfterStop == ~winLog.passAfterStop

----------------------------------------------------------------------------
(* C20 *)

\* C20: when Start returns nil after the outer context was cancelled, no request
\* handler is still running (Shutdown is given no deadline that could elapse
\* first), and no server accepted a connection after its Shutdown was called.
C20_StartWaitsForHandlers ==
    /\ (srv.pc = "returned" /\ srv.cancelled /\ srv.result = "nil") => srv.atReturn = 0
    /\ ~srv.lateAccept

----------------------------------------------------------------------------
(* C21 *)

\* C21: once the outer context is cancelled Start returns; when no listener has
\* failed it returns nil ("server closed" is not an error), and when it returns
\* an error it is that of the listener that failed first.
C21_StartReturns ==
    /\ [](srv.pc = "returned" =>
            /\ srv.failed = << >> => srv.result = "nil"
            /\ srv.result = "error" => (srv.failed # << >> /\ srv.resultOf = Head(srv.failed)))
    /\ (srv.ctxDone ~> srv.pc = "returned")

\* Start has returned nil after a cancellation that found both servers
\* serving, one of them with a request in flight.
C21_Witness ==
    /\ srv.pc = "returned"
    /\ srv.cancelled
    /\ srv.result = "nil"
    /\ srv.failed = << >>
    /\ srv.atReturn > 0

----------------------------------------------------------------------------
(* C22 *)

\* C22: a call of EnableMutualTLS or DisableMutualTLS whose files load is never
\* left waiting for the manager's lock while holding that lock itself; and when
\* such a call has returned nil the TLS configuration it installed has the
\* client-auth mode RequireAndVerifyClientCert, respectively NoClientCert.
C22_MutualTLSReturns ==
    \A c \in SslCallers :
        /\ ~(ssl.pc[c].at = "lock" /\ ssl.mu = c)
        /\ (ssl.pc[c].at = "idle" /\ ssl.pc[c].res = "nil") =>
              /\ ssl.pc[c].op = "enable" => ssl.pc[c].auth = "RequireAndVerifyClientCert"
              /\ ssl.pc[c].op = "disable" => ssl.pc[c].auth = "NoClientCert"

----------------------------------------------------------------------------
(* C23 *)

\* Next holds wrr.mu from its first to its last statement, so the calls of
\* concurrent callers take effect one at a time, in some order: wlog.
Abs(n) == IF n < 0 THEN -n ELSE n

EqualPair ==
    /\ Len(wrr) = 2
    /\ wrr[1].EffectiveWeight = wrr[2].EffectiveWeight

AllReturned == Len(wrr) > 0 => \A j \in 1..Len(wlog) : wlog[j] \in 1..Len(wrr)

\* C23 as stated: on a non-empty selector every call of Next returns a backend
\* (so there are as many selections as calls), and with two backends of equal
\* weight the share of each in the selections is between 0.45 and 0.55.
C23_EvenShares ==
    /\ AllReturned
    /\ (EqualPair /\ wclean) =>
          \A i \in 1..2 :
              10 * Abs(2 * PicksIn(wlog, 1, Len(wlog), i) - Len(wlog)) <= Len(wlog)

\* C23 amended: every call returns a backend, and with two backends of equal
\* weight and current weights that started from 0 the two counts differ by at
\* most 1 after any number of calls; the shares are then within 0.45 .. 0.55
\* once there have been 10 calls, or an even number of them.
C23_CountsWithinOne ==
    /\ AllReturned
    /\ (EqualPair /\ wclean) =>
          Abs(PicksIn(wlog, 1, Len(wlog), 1) - PicksIn(wlog, 1, Len(wlog), 2)) <= 1

\* Nine calls of Next on two backends of weight 2.
C23_Witness ==
    /\ EqualPair
    /\ wclean
    /\ wrr[1].EffectiveWeight = 2
    /\ wrr[1].ID # wrr[2].ID
    /\ Len(wlog) = 9

----------------------------------------------------------------------------
(* C24 *)

\* C24: when Rollout or Rollback has installed the list of URLs that was
\* already live, the selector holds no entry that the call added, and the live
\* set is the one that was live before.
C24_InstallCurrentIsNoOp ==
    \A c \in DOMAIN ro :
        (ro[c].pc = "idle" /\ ro[c].result = "ok" /\ ListUrls(ro[c].list) = ro[c].before.urls) =>
            /\ \A k \in 1..Len(wrrGen) : wrrGen[k] <= ro[c].before.calls
            /\ LiveUrls = ro[c].before.urls

----------------------------------------------------------------------------
(* C25 *)

WrrIsReset(bs) ==
    \A i \in 1..Len(bs) : bs[i].CurrentWeight = 0 /\ bs[i].EffectiveWeight = bs[i].Weight

CbIsReset(b) == b.state = "Closed" /\ b.failures = 0 /\ b.successCount = 0

----------------------------------------------------------------------------
(* C26 *)

\* C26: when Rollout or Rollback has failed on a URL that does not parse,
\* GetCode of the error it returned is CONFIG_INVALID.
C26_FailureHasConfigInvalid ==
    \A c \in DOMAIN ro :
        (ro[c].pc = "idle" /\ ro[c].result = "failed") =>
            GetCode(RolloutError(ro[c].result)) = "CONFIG_INVALID"

----------------------------------------------------------------------------
(* C27 *)

\* C27: from the moment Rollout or Rollback is called with a non-empty list on
\* a balancer whose live set is not empty, the live set is never empty: not
\* between batches, not after a failure and its restore, not after the return.
C27_NeverEmpty ==
    \A c \in DOMAIN ro :
        (ro[c].calls > 0 /\ Len(ro[c].list) > 0 /\ ro[c].before.urls # << >>) =>
            Len(lbBackends) > 0

\* A call with two URLs and batch size 1 has installed the first, failed on the
\* second and restored a live set of two backends.
C27_Witness ==
    \E c \in DOMAIN ro :
        /\ ro[c].pc = "idle"
        /\ ro[c].result = "failed"
        /\ ro[c].batch = 1
        /\ Len(ro[c].list) = 2
        /\ Len(ro[c].before.urls) = 2
        /\ gens.calls = ro[c].before.calls + 3
        /\ Len(lbBackends) = 2

----------------------------------------------------------------------------
(* C28 *)

\* C28: once the operations have stopped failing, a breaker that is Open (early
\* enough for the clock of the model to pass its open timeout) becomes Closed
\* and from some moment on stays Closed, given that time advances and calls
\* keep arriving.
C28_Recovers ==
    (cbHist.healed /\ cb.state = "Open" /\ cb.lastFailure + cb.timeout < MaxTime)
        ~> [](cb.state = "Closed")

\* The breaker has failed, the operations have stopped failing, and the probe
\* that closed the breaker has been recorded, with no Reset.
C28_Witness ==
    /\ cbHist.healed
    /\ ~cbHist.reset
    /\ cb.state = "Closed"
    /\ cb.lastFailure # ZeroTime
    /\ cbHist.last = "ok"
    /\ cbHist.from = "HalfOpen"
    /\ cb.halfOpenMax = 2

----------------------------------------------------------------------------
(* C29 *)

\* The reference step of smooth weighted round-robin, in two passes: the
\* addition, then the choice among the results.
RefAdded(bs) ==
    [i \in 1..Len(bs) |-> [bs[i] EXCEPT !.CurrentWeight = @ + bs[i].EffectiveWeight]]

RefWinner(bs) ==
    LET a == RefAdded(bs)
    IN  CHOOSE i \in 1..Len(bs) :
            /\ \A j \in 1..Len(bs) : a[j].CurrentWeight <= a[i].CurrentWeight
            /\ \A j \in 1..(i - 1) : a[j].CurrentWeight < a[i].CurrentWeight

RefNext(bs) ==
    [ backends |-> [RefAdded(bs) EXCEPT ![RefWinner(bs)].CurrentWeight =
                                            @ - SumEffective(bs, 1)],
      selected |-> RefWinner(bs) ]

\* C29: on a non-empty selector Next is the reference step: every entry gains
\* its effective weight, the entry with the largest current weight wins (the
\* earliest among equals), the winner alone loses the sum of all effective
\* weights, and the winner is returned.
C29_NextIsReferenceStep == Len(wrr) > 0 => WrrNext(wrr) = RefNext(wrr)

\* After some calls of Next, a selector of three entries in which the next call
\* finds two entries sharing the largest current weight, the winner not first.
C29_Witness ==
    /\ Len(wrr) = 3
    /\ Len(wlog) >= 2
    /\ RefWinner(wrr) = 2
    /\ RefAdded(wrr)[3].CurrentWeight = RefAdded(wrr)[2].CurrentWeight

----------------------------------------------------------------------------
(* C30 *)

Clamp(x, lo, hi) == IF x < lo THEN lo ELSE IF x > hi THEN hi ELSE x

WeightsInRange(bs) ==
    \A i \in 1..Len(bs) :
        /\ bs[i].Weight >= 1
        /\ bs[i].EffectiveWeight >= 1
        /\ bs[i].EffectiveWeight <= 2 * bs[i].Weight

\* C30: whatever calls were made, every entry has a nominal weight of at least 1
\* and an effective weight from 1 to twice the nominal; and AdjustWeight(id,
\* delta) leaves the entry it finds with clamp(effective + delta, 1, 2 * nominal).
C30_WeightsClamped ==
    /\ WeightsInRange(wrr)
    /\ \A id \in Ids, d \in {-1, 1, 2 * MaxWeight, -2 * MaxWeight} :
          LET i == FirstWithID(wrr, id, 1)
          IN  i # 0 =>
                WrrAdjustWeight(wrr, id, d)[i].EffectiveWeight =
                    Clamp(wrr[i].EffectiveWeight + d, 1, 2 * wrr[i].Weight)

\* An entry of nominal weight 2 has been raised to the cap, 4, and has been
\* picked by Next since.
C30_Witness ==
    \E i \in 1..Len(wrr) :
        /\ wrr[i].Weight = 2
        /\ wrr[i].EffectiveWeight = 4
        /\ Len(wlog) >= 1
        /\ wlog[Len(wlog)] = i

----------------------------------------------------------------------------
(* C31 *)

Min(a, b) == IF a <= b THEN a ELSE b

\* The last admitted call before the j-th of the log, 0 when there is none.
RECURSIVE LastAdmitted(_)
LastAdmitted(j) ==
    IF j <= 1 THEN 0
    ELSE IF tbLog[j - 1].err = "nil" THEN j - 1 ELSE LastAdmitted(j - 1)

\* The tokens the j-th admission test finds, counted from the last admission
\* (or from the creation of the bucket, full, at time 0) alone: what was left
\* then plus rate times the time since, capped. Rejected calls play no part.
RECURSIVE SeenFromAdmission(_, _)
SeenFromAdmission(j, t) ==
    LET m == LastAdmitted(j)
        tokens0 == IF m = 0 THEN tb.capacity
                   ELSE SeenFromAdmission(m, tbLog[m].t) - TokenScale
        t0 == IF m = 0 THEN 0 ELSE tbLog[m].t
    IN  Min(tb.capacity, tokens0 + (t - t0) * tb.rate)

\* C31: a call of Allow made now finds min(capacity, tokens0 + dt * rate) tokens,
\* tokens0 being what the last admission left and dt the time since, however
\* many rejected calls were made in between; every logged call was admitted or
\* rejected on that amount.
C31_RefillIgnoresRejections ==
    /\ TbRefill(tb, now).tokens = SeenFromAdmission(Len(tbLog) + 1, now)
    /\ \A j \in 1..Len(tbLog) :
          tbLog[j].err = "nil" <=> SeenFromAdmission(j, tbLog[j].t) >= TokenScale

\* An admission, then two rejected calls a second apart, and a second later the
\* bucket of rate 1/2 per second holds a whole token again.
C31_Witness ==
    /\ tb.rate * 2 = TokenScale
    /\ Len(tbLog) >= 3
    /\ LET n == Len(tbLog)
       IN  /\ tbLog[n - 2].err = "nil"
           /\ tbLog[n - 1].err = "RateLimitExceeded"
           /\ tbLog[n].err = "RateLimitExceeded"
           /\ tbLog[n].t = tbLog[n - 1].t + 1
           /\ now = tbLog[n].t + 1
    /\ TbRefill(tb, now).tokens >= TokenScale

----------------------------------------------------------------------------
(* C32 *)

TokensInRange(b) == 0 <= b.tokens /\ b.tokens <= b.capacity

\* C32: the bucket always holds between 0 and capacity tokens; a call of Allow
\* is admitted only when the refilled bucket holds at least one token and then
\* leaves exactly one token less, and a rejected call takes nothing.
C32_TokensBounded ==
    /\ TokensInRange(tb)
    /\ [][ /\ TokensInRange(tb')
           /\ Len(tbLog') > Len(tbLog) =>
                LET seen == Min(tb.capacity,
                                tb.tokens + (now - tb.lastRefill) * tb.rate)
                IN  IF tbLog'[Len(tbLog')].err = "nil"
                    THEN seen >= TokenScale /\ tb'.tokens = seen - TokenScale
                    ELSE seen < TokenScale /\ tb'.tokens = seen ]_vars

\* A call was rejected on half a token, and the latest call, made after a
\* further wait, was admitted and left half a token in the bucket.
C32_Witness ==
    /\ Len(tbLog) >= 2
    /\ tbLog[Len(tbLog) - 1].err = "RateLimitExceeded"
    /\ tbLog[Len(tbLog)].err = "nil"
    /\ tbLog[Len(tbLog)].t = now
    /\ tb.tokens * 2 = TokenScale

----------------------------------------------------------------------------
(* C40 *)

\* How many of the calls i..j of the log were admitted.
RECURSIVE TbAdmittedIn(_, _)
TbAdmittedIn(i, j) ==
    IF i > j THEN 0
    ELSE (IF tbLog[i].err = "nil" THEN 1 ELSE 0) + TbAdmittedIn(i + 1, j)

\* C40: the calls admitted in any interval of length T are at most
\* capacity + rate * T, and every call of Allow returns nil or
\* RateLimitExceeded.
C40_AdmissionsBounded ==
    /\ \A j \in 1..Len(tbLog) : tbLog[j].err \in {"nil", "RateLimitExceeded"}
    /\ \A i \in 1..Len(tbLog) : \A j \in i..Len(tbLog) :
          TbAdmittedIn(i, j) * TokenScale
              <= tb.capacity + tb.rate * (tbLog[j].t - tbLog[i].t)

\* Three admissions in an interval of a second that reach the bound, with a
\* rejected call among them: a bucket of 2 tokens and 1 token per second.
C40_Witness ==
    /\ tb.capacity = 2 * TokenScale /\ tb.rate = TokenScale
    /\ \E i \in 1..Len(tbLog) : \E j \in i..Len(tbLog) :
          /\ tbLog[j].t = tbLog[i].t + 1
          /\ TbAdmittedIn(i, j) = 3
          /\ j - i = 3

----------------------------------------------------------------------------
(* C33 *)

\* RecordResult has just closed a HalfOpen breaker.
JustClosed == cbHist.last = "ok" /\ cbHist.from = "HalfOpen" /\ cb.state = "Closed"

\* C33: in the state a HalfOpen breaker is closed into, both counters are zero:
\* the count of consecutive failures and the count of half-open successes.
C33_ClosedWithZeroCounters ==
    JustClosed => (cb.failures = 0 /\ cb.successCount = 0)

----------------------------------------------------------------------------
(* C34 *)

\* The updateBackends calls made since caller c's call began.
InstallsOf(c) == gens.calls - ro[c].before.calls

\* The first n URLs of caller c's list, parsed.
PrefixUrls(c, n) ==
    ListUrls(SubSeq(ro[c].list, 1, IF n > Len(ro[c].list) THEN Len(ro[c].list) ELSE n))

\* A call that has not failed and was not cancelled.
Succeeding(c) == ~ro[c].restore /\ ~ro[c].ctxDone

\* C34: in a Rollout that succeeds, with list L and batch size b (1 when the
\* size given is 0 or less), the k-th install makes the live set the first
\* min(k * b, |L|) URLs of L; an install is complete before the wait that
\* precedes the next one, so that while the k-th is being built the live set is
\* still that of the (k-1)-th; and on return there was one install per batch.
C34_PrefixesInOrder ==
    /\ \A size \in {-1, 0} : RolloutBatchSize(size) = 1
    /\ \A c \in DOMAIN ro :
          LET b == ro[c].batch
              i == ro[c].i
          IN  /\ (ro[c].pc \in {"loop", "ub", "sleep"} /\ Succeeding(c)) =>
                    b >= 1 /\ i % b = 0
              /\ (ro[c].pc = "sleep" /\ Succeeding(c)) =>
                    /\ LiveUrls = PrefixUrls(c, i + b)
                    /\ InstallsOf(c) = i \div b + 1
              /\ (ro[c].pc \in {"loop", "ub"} /\ Succeeding(c) /\ i > 0) =>
                    /\ LiveUrls = PrefixUrls(c, i)
                    /\ InstallsOf(c) = i \div b + (IF ro[c].pc = "ub" THEN 1 ELSE 0)
              /\ (ro[c].pc = "idle" /\ ro[c].result = "ok") =>
                    /\ LiveUrls = ListUrls(ro[c].list)
                    /\ InstallsOf(c) = (Len(ro[c].list) + b - 1) \div b

\* A call with two URLs and batch size 1 is building its second install while
\* its first URL alone is live, where something else was live before the call.
C34_Witness ==
    \E c \in DOMAIN ro :
        /\ ro[c].pc = "ub" /\ Succeeding(c)
        /\ Len(ro[c].list) = 2 /\ ro[c].batch = 1 /\ ro[c].i = 1
        /\ ro[c].k = 1
        /\ LiveUrls = PrefixUrls(c, 1)
        /\ ro[c].before.urls # LiveUrls

----------------------------------------------------------------------------
(* C35 *)

\* A request that was handed to the breaker of a backend and has ended.
Submitted(r) == r.pc = "done" /\ r.b # 0

\* C35: requests_total is incremented once for every request handed to the
\* breaker of a backend, those the breaker or the limiter then rejects included.
C35_EveryRequestCounted ==
    \A h \in Handlers : Submitted(hs[h]) => hs[h].reqs = 1

----------------------------------------------------------------------------
(* C38 *)

\* C38: a request that ends without success (no backend, circuit open, rate
\* limited, a backend status of 500 or above, timeout) adds exactly one to
\* errors_total, and a request that succeeds adds nothing.
C38_OneErrorPerFailure ==
    \A h \in Handlers :
        hs[h].pc = "done" => hs[h].errs = (IF Failed(hs[h]) THEN 1 ELSE 0)

----------------------------------------------------------------------------
(* C36 *)

\* The request of handler h has been handed to the proxy of its backend.
Forwarded(r) == r.reqs = 1

----------------------------------------------------------------------------
(* C37 *)

\* The breaker has let the request of handler h through.
Admitted(r) == r.pc \in {"upgrade", "limit", "proxy", "record"}

----------------------------------------------------------------------------
(* C39 *)

\* A Backend as updateBackends builds it: the breaker Closed with its counters
\* at zero, the bucket full.
Fresh(b) ==
    /\ b.CircuitBreaker = CbNew(LbThreshold, LbOpenTimeout, LbHalfOpenMax)
    /\ b.RateLimiter.tokens = b.RateLimiter.capacity

\* C39: every install (each batch of a Rollout or Rollback, and the restore
\* after a failure) makes a live set of Backends built by that install: none of
\* them was live before, and each has its breaker Closed with zero counters and
\* its bucket full, whatever the state of the Backend that was live for the same
\* URL before.
C39_InstallBuildsFresh ==
    [][gens'.live # gens.live =>
          \A k \in 1..Len(lbBackends') :
              /\ lbBackends'[k] \notin Range(lbBackends)
              /\ Fresh(recs'[lbBackends'[k]])]_vars

\* A request has opened the breaker of a backend; an install of the same URL
\* since has left the handler with the old Backend, its breaker Open, while the
\* live Backend of that URL is another one, as built.
C39_Witness ==
    \E h \in Handlers : \E k \in 1..Len(lbBackends) :
        /\ hs[h].pc = "done" /\ hs[h].b # 0
        /\ recs[hs[h].b].CircuitBreaker.state = "Open"
        /\ lbBackends[k] # hs[h].b
        /\ recs[lbBackends[k]].URL = recs[hs[h].b].URL
        /\ Fresh(recs[lbBackends[k]])
        /\ gens.live > 1

====
